---- MODULE Spec2Model ----
(***************************************************************************)
(* A model of spotclean's ErrorSanitizer (sanitizer.ts) and of the         *)
(* SecretGuard (secret-guard.ts) it redacts with.                          *)
(*                                                                         *)
(* Strings are sequences of one-character strings, so that length,         *)
(* substring, lower-casing, keyword search and regular-expression matching *)
(* are computed character by character as the JavaScript does.             *)
(***************************************************************************)
EXTENDS Integers, Sequences, FiniteSets, TLC

(***************************************************************************)
(* Characters                                                              *)
(***************************************************************************)
Lower == {"a","b","c","d","e","f","g","h","i","j","k","l","m",
          "n","o","p","q","r","s","t","u","v","w","x","y","z"}
Upper == {"A","B","C","D","E","F","G","H","I","J","K","L","M",
          "N","O","P","Q","R","S","T","U","V","W","X","Y","Z"}
Digit == {"0","1","2","3","4","5","6","7","8","9"}
\* \w of a JavaScript regular expression
WordChar == Lower \cup Upper \cup Digit \cup {"_"}
\* \s of a JavaScript regular expression (the ASCII part)
Space == {" ", "\t", "\n", "\r", "\f"}
Quote == {"'", "\""}

LowerOf == [A |-> "a", B |-> "b", C |-> "c", D |-> "d", E |-> "e", F |-> "f",
            G |-> "g", H |-> "h", I |-> "i", J |-> "j", K |-> "k", L |-> "l",
            M |-> "m", N |-> "n", O |-> "o", P |-> "p", Q |-> "q", R |-> "r",
            S |-> "s", T |-> "t", U |-> "u", V |-> "v", W |-> "w", X |-> "x",
            Y |-> "y", Z |-> "z"]

UpperOf == [a |-> "A", b |-> "B", c |-> "C", d |-> "D", e |-> "E", f |-> "F",
            g |-> "G", h |-> "H", i |-> "I", j |-> "J", k |-> "K", l |-> "L",
            m |-> "M", n |-> "N", o |-> "O", p |-> "P", q |-> "Q", r |-> "R",
            s |-> "S", t |-> "T", u |-> "U", v |-> "V", w |-> "W", x |-> "X",
            y |-> "Y", z |-> "Z"]

ToLowerChar(c) == IF c \in Upper THEN LowerOf[c] ELSE c

\* String.prototype.toLowerCase
toLowerCase(s) == [i \in 1..Len(s) |-> ToLowerChar(s[i])]

\* String.prototype.substring(from, to) with 0-based from <= to
Min(a, b) == IF a < b THEN a ELSE b
substring(s, from, to) ==
    SubSeq(s, Min(from, Min(to, Len(s))) + 1, Min(to, Len(s)))

\* String.prototype.includes: keyword occurs in s as a contiguous substring
includes(s, keyword) ==
    \E i \in 0..(Len(s) - Len(keyword)) :
        \A j \in 1..Len(keyword) : s[i + j] = keyword[j]

\* String.prototype.endsWith
endsWith(s, suffix) ==
    /\ Len(s) >= Len(suffix)
    /\ \A j \in 1..Len(suffix) : s[Len(s) - Len(suffix) + j] = suffix[j]

(***************************************************************************)
(* Regular expressions: the syntax tree of a pattern and the backtracking  *)
(* matcher of ECMAScript (alternatives tried left to right, greedy         *)
(* quantifiers longest first, lazy ones shortest first).                   *)
(***************************************************************************)
Chr(set)     == [t |-> "chr", neg |-> FALSE, set |-> set]
NotChr(set)  == [t |-> "chr", neg |-> TRUE, set |-> set]
Lit(str)     == [t |-> "lit", str |-> str]
WB           == [t |-> "wb"]
Cat(ps)      == [t |-> "cat", ps |-> ps]
Alt(ps)      == [t |-> "alt", ps |-> ps]
Rep(p, min, max, greedy) ==
    [t |-> "rep", p |-> p, min |-> min, max |-> max, greedy |-> greedy]
Unbounded    == -1
Opt(p)       == Rep(p, 0, 1, TRUE)
Star(p)      == Rep(p, 0, Unbounded, TRUE)
Plus(p)      == Rep(p, 1, Unbounded, TRUE)
AtLeast(p, n) == Rep(p, n, Unbounded, TRUE)
Exactly(p, n) == Rep(p, n, n, TRUE)
LazyStar(p)  == Rep(p, 0, Unbounded, FALSE)

SetMin(S) == CHOOSE m \in S : \A n \in S : m <= n

\* a character against a character class; under the i flag both are
\* canonicalized, so a letter is in the class when either case of it is
CharHit(r, c, ci) ==
    \/ c \in r.set
    \/ ci /\ c \in Upper /\ LowerOf[c] \in r.set
    \/ ci /\ c \in Lower /\ UpperOf[c] \in r.set
CharIn(r, c, ci) == IF r.neg THEN ~CharHit(r, c, ci) ELSE CharHit(r, c, ci)

\* the literal str read at position i of s, under the i flag or not
LitAt(str, s, i, ci) ==
    /\ i + Len(str) - 1 <= Len(s)
    /\ \A j \in 1..Len(str) :
          IF ci THEN ToLowerChar(s[i + j - 1]) = ToLowerChar(str[j])
                ELSE s[i + j - 1] = str[j]

\* \b at position i (the next character to read is s[i])
WordBoundary(s, i) ==
    (i > 1 /\ s[i - 1] \in WordChar) # (i <= Len(s) /\ s[i] \in WordChar)

\* how many characters from position i on are in the class r, at most max
RunLast(s, i, max) ==
    IF max = Unbounded \/ i + max - 1 > Len(s) THEN Len(s) ELSE i + max - 1
RunUpTo(stops, i, last) == IF stops = {} THEN last - i + 1 ELSE SetMin(stops) - i
RunLength(r, s, i, ci, max) ==
    RunUpTo({j \in i..RunLast(s, i, max) : ~CharIn(r, s[j], ci)}, i, RunLast(s, i, max))

\* The position after the first match (in backtracking order) of the
\* concatenation of the nodes k at position i of s, or 0 when none matches.
\* A quantified character class is decided without recursion on its length:
\* a greedy one takes the largest count after which the rest matches, a lazy
\* one the smallest, which is what backtracking finds first.
RECURSIVE MatchFrom(_, _, _, _)
RECURSIVE MatchNode(_, _, _, _, _)
MatchFrom(k, s, i, ci) ==
    IF Len(k) = 0 THEN i ELSE MatchNode(Head(k), Tail(k), s, i, ci)

\* what backtracking finds first of two alternatives
FirstNonZero(a, b) == IF a # 0 THEN a ELSE b

\* of the <<count, end>> pairs that let the rest match, the end after the
\* largest count (greedy) or the smallest (lazy)
PickEnd(good, greedy) ==
    IF good = {} THEN 0
    ELSE IF greedy
    THEN (CHOOSE e \in good : \A f \in good : f[1] <= e[1])[2]
    ELSE (CHOOSE e \in good : \A f \in good : e[1] <= f[1])[2]

OneLess(max) == IF max = Unbounded THEN Unbounded ELSE max - 1

\* the node r at position i, followed by the nodes rest
MatchNode(r, rest, s, i, ci) ==
    CASE r.t = "chr" ->
            IF i <= Len(s) /\ CharIn(r, s[i], ci)
            THEN MatchFrom(rest, s, i + 1, ci) ELSE 0
      [] r.t = "lit" ->
            IF LitAt(r.str, s, i, ci)
            THEN MatchFrom(rest, s, i + Len(r.str), ci) ELSE 0
      [] r.t = "wb" ->
            IF WordBoundary(s, i) THEN MatchFrom(rest, s, i, ci) ELSE 0
      [] r.t = "cat" -> MatchFrom(r.ps \o rest, s, i, ci)
      [] r.t = "alt" ->
            IF Len(r.ps) = 0 THEN 0
            ELSE FirstNonZero(MatchFrom(<<Head(r.ps)>> \o rest, s, i, ci),
                              MatchFrom(<<Alt(Tail(r.ps))>> \o rest, s, i, ci))
      [] r.t = "rep" /\ r.p.t = "chr" ->
            PickEnd({e \in {<<c, MatchFrom(rest, s, i + c, ci)>> :
                               c \in r.min..RunLength(r.p, s, i, ci, r.max)} :
                        e[2] # 0},
                    r.greedy)
      [] r.t = "rep" /\ r.p.t # "chr" ->
            IF r.min > 0
            THEN MatchFrom(<<r.p, Rep(r.p, r.min - 1, OneLess(r.max), r.greedy)>> \o rest,
                           s, i, ci)
            ELSE IF r.max = 0 THEN MatchFrom(rest, s, i, ci)
            ELSE IF r.greedy
            THEN FirstNonZero(
                    MatchFrom(<<r.p, Rep(r.p, 0, OneLess(r.max), r.greedy)>> \o rest, s, i, ci),
                    MatchFrom(rest, s, i, ci))
            ELSE FirstNonZero(
                    MatchFrom(rest, s, i, ci),
                    MatchFrom(<<r.p, Rep(r.p, 0, OneLess(r.max), r.greedy)>> \o rest, s, i, ci))

\* The leftmost match of p in s from position from on, as <<start, end>> (the
\* match is s[start..end-1]), or <<0, 0>> when there is none.
Leftmost(found) ==
    IF found = {} THEN <<0, 0>>
    ELSE CHOOSE m \in found : \A o \in found : m[1] <= o[1]
FirstMatch(p, s, from) ==
    Leftmost({m \in {<<i, MatchFrom(<<p.re>>, s, i, p.ci)>> : i \in from..(Len(s) + 1)} :
                 m[2] # 0})

\* RegExp.prototype.test: a g pattern scans from its lastIndex on (and fails
\* when that lies beyond the end of s), any other pattern from the start
RegExpTest(p, s) ==
    IF p.global
    THEN p.lastIndex <= Len(s) /\ FirstMatch(p, s, p.lastIndex + 1) # <<0, 0>>
    ELSE FirstMatch(p, s, 1) # <<0, 0>>

\* lastIndex of p once p.test(s) has returned: the end of the match for a g
\* pattern that matched, 0 for one that did not
EndIndex(m) == IF m[1] = 0 THEN 0 ELSE m[2] - 1
lastIndexAfterTest(p, s) ==
    IF ~p.global THEN p.lastIndex
    ELSE IF p.lastIndex > Len(s) THEN 0
    ELSE EndIndex(FirstMatch(p, s, p.lastIndex + 1))

\* Fault: the scan starts where the pattern object's last scan ended
KeepLastIndex(p) == p

\* pattern.lastIndex = 0
ResetLastIndex(p) == [p EXCEPT !.lastIndex = 0]

(***************************************************************************)
(* secret-guard.ts                                                         *)
(***************************************************************************)
AlnumUD == Lower \cup Upper \cup Digit \cup {"_", "-"}
KeyValueTail(valueClass, n) ==
    <<Chr({"=", ":"}), Star(Chr(Space)), Opt(Chr(Quote)),
      AtLeast(valueClass, n), Opt(Chr(Quote))>>
PemLine(word) ==
    Cat(<<Lit(<<"-","-","-","-","-">>), Lit(word), Plus(Chr(Space)),
          Opt(Cat(<<Lit(<<"R","S","A">>), Plus(Chr(Space))>>)),
          Lit(<<"P","R","I","V","A","T","E">>), Plus(Chr(Space)), Lit(<<"K","E","Y","-","-","-","-","-">>)>>)

DEFAULT_SECRET_PATTERNS == <<
    [name |-> "api-key", ci |-> TRUE, global |-> TRUE, lastIndex |-> 0,
     re |-> Cat(<<WB, Alt(<<Cat(<<Lit(<<"a","p","i">>), Opt(Chr({"_", "-"})), Lit(<<"k","e","y">>)>>),
                            Lit(<<"a","p","i","k","e","y">>)>>)>>
                \o KeyValueTail(Chr(AlnumUD), 20))],
    [name |-> "bearer-token", ci |-> TRUE, global |-> TRUE, lastIndex |-> 0,
     re |-> Cat(<<WB, Lit(<<"b","e","a","r","e","r">>), Plus(Chr(Space)),
                  AtLeast(Chr(AlnumUD \cup {"."}), 20)>>)],
    [name |-> "aws-key", ci |-> FALSE, global |-> TRUE, lastIndex |-> 0,
     re |-> Cat(<<WB, Lit(<<"A","K","I","A">>), Exactly(Chr(Digit \cup Upper), 16), WB>>)],
    [name |-> "aws-secret", ci |-> FALSE, global |-> TRUE, lastIndex |-> 0,
     re |-> Cat(<<WB, Exactly(Chr(Lower \cup Upper \cup Digit \cup {"+", "/"}), 40), WB>>)],
    [name |-> "password", ci |-> TRUE, global |-> TRUE, lastIndex |-> 0,
     re |-> Cat(<<WB, Alt(<<Lit(<<"p","a","s","s","w","o","r","d">>), Lit(<<"p","a","s","s","w","d">>), Lit(<<"p","w","d">>)>>)>>
                \o KeyValueTail(NotChr(Space \cup Quote), 4))],
    [name |-> "secret", ci |-> TRUE, global |-> TRUE, lastIndex |-> 0,
     re |-> Cat(<<WB, Alt(<<Lit(<<"s","e","c","r","e","t">>), Lit(<<"t","o","k","e","n">>), Lit(<<"c","r","e","d","e","n","t","i","a","l">>)>>)>>
                \o KeyValueTail(NotChr(Space \cup Quote), 8))],
    [name |-> "private-key", ci |-> FALSE, global |-> TRUE, lastIndex |-> 0,
     re |-> Cat(<<PemLine(<<"B","E","G","I","N">>), LazyStar(NotChr({})), PemLine(<<"E","N","D">>)>>)],
    [name |-> "jwt", ci |-> FALSE, global |-> TRUE, lastIndex |-> 0,
     re |-> Cat(<<WB, Lit(<<"e","y","J">>), Star(Chr(AlnumUD)), Lit(<<".">>),
                  Lit(<<"e","y","J">>), Star(Chr(AlnumUD)), Lit(<<".">>), Star(Chr(AlnumUD))>>)],
    [name |-> "connection-string", ci |-> TRUE, global |-> TRUE, lastIndex |-> 0,
     re |-> Cat(<<WB, Alt(<<Lit(<<"m","o","n","g","o","d","b">>), Lit(<<"p","o","s","t","g","r","e","s">>), Lit(<<"m","y","s","q","l">>), Lit(<<"r","e","d","i","s">>)>>),
                  Lit(<<":","/","/">>), Plus(NotChr(Space))>>)],
    [name |-> "generic-secret-env", ci |-> FALSE, global |-> TRUE, lastIndex |-> 0,
     re |-> Cat(<<WB, Plus(Chr(Upper \cup {"_"})),
                  Alt(<<Lit(<<"K","E","Y">>), Lit(<<"S","E","C","R","E","T">>), Lit(<<"T","O","K","E","N">>),
                        Lit(<<"P","A","S","S","W","O","R","D">>), Lit(<<"C","R","E","D","E","N","T","I","A","L">>)>>)>>
                \o KeyValueTail(NotChr(Space \cup Quote), 8))]
>>

\* DEFAULT_CONFIG of the SecretGuard
DEFAULT_GUARD_CONFIG ==
    [enabled |-> TRUE, customPatterns |-> <<>>, redactionText |-> <<"[","R","E","D","A","C","T","E","D","]">>,
     preservePartial |-> FALSE, preserveLength |-> 4]

\* new SecretGuard(config): the merged configuration and the pattern list
SecretGuard(cfg) ==
    [config |-> cfg,
     patterns |-> DEFAULT_SECRET_PATTERNS \o cfg.customPatterns]

\* String.prototype.slice(-n): the last n characters (all of s for n = 0,
\* since slice(-0) is slice(0))
sliceLast(s, n) ==
    IF n <= 0 \/ n >= Len(s) THEN s ELSE SubSeq(s, Len(s) - n + 1, Len(s))

createRedaction(cfg, match) ==
    IF cfg.preservePartial /\ Len(match) > cfg.preserveLength
    THEN cfg.redactionText \o <<".",".",".">> \o sliceLast(match, cfg.preserveLength)
    ELSE cfg.redactionText

\* String.prototype.replace(pattern, fn) from position from on: the leftmost
\* match is replaced and the scan goes on after it (all matches for a g
\* pattern, the first one otherwise); an empty match advances by one
\* character. Replacement text is never scanned again.
RECURSIVE ReplaceFrom(_, _, _, _)
RECURSIVE ReplaceMatch(_, _, _, _, _)
ReplaceFrom(cfg, p, s, from) == ReplaceMatch(cfg, p, s, from, FirstMatch(p, s, from))

\* the same, given the leftmost match m from position from on
ReplaceMatch(cfg, p, s, from, m) ==
    IF m[1] = 0 THEN SubSeq(s, from, Len(s))
    ELSE SubSeq(s, from, m[1] - 1)
         \o createRedaction(cfg, SubSeq(s, m[1], m[2] - 1))
         \o (IF ~p.global THEN SubSeq(s, m[2], Len(s))
             ELSE IF m[2] > m[1] THEN ReplaceFrom(cfg, p, s, m[2])
             ELSE IF m[1] > Len(s) THEN <<>>
             ELSE <<s[m[1]]>> \o ReplaceFrom(cfg, p, s, m[1] + 1))

RECURSIVE RedactWith(_, _, _)
RedactWith(cfg, patterns, s) ==
    IF Len(patterns) = 0 THEN s
    ELSE RedactWith(cfg, Tail(patterns), ReplaceFrom(cfg, Head(patterns), s, 1))

\* Fault: redact applying the pattern list from its last entry to its first
Reversed(seq) == [i \in 1..Len(seq) |-> seq[Len(seq) + 1 - i]]
redactLastFirst(guard, input) ==
    IF ~guard.config.enabled \/ Len(input) = 0 THEN input
    ELSE RedactWith(guard.config, Reversed(guard.patterns), input)

\* Fault: redact scanning and returning a case-folded copy of its input
redactCaseFolded(guard, input) ==
    IF ~guard.config.enabled \/ Len(input) = 0 THEN input
    ELSE RedactWith(guard.config, guard.patterns, toLowerCase(input))

\* SecretGuard.redact on a string
redact(guard, input) ==
    IF ~guard.config.enabled \/ Len(input) = 0 THEN input
    ELSE RedactWith(guard.config, guard.patterns, input)

(***************************************************************************)
(* The message texts the model feeds in, and SecretGuard.redact of each    *)
(* under the default guard, computed once.                                 *)
(***************************************************************************)
TextTimedOut     == <<"R","e","q","u","e","s","t"," ","t","i","m","e","d"," ","o","u","t"," ","a","f","t","e","r"," ","5","0","0","0","m","s">>
TextEacces       == <<"F","a","i","l","e","d"," ","t","o"," ","r","e","a","d"," ","/","e","t","c","/","p","a","s","s","w","d",":"," ","E","A","C","C","E","S">>
TextAuthFailure  == <<"C","u","s","t","o","m"," ","a","u","t","h"," ","f","a","i","l","u","r","e">>
TextConnTimeout  == <<"C","o","n","n","e","c","t","i","o","n"," ","t","i","m","e","o","u","t">>
TextLoginMissing == <<"L","o","g","i","n"," ","f","a","i","l","e","d",":"," ","r","e","s","o","u","r","c","e"," ","n","o","t"," ","f","o","u","n","d">>
TextPassword     == <<"L","o","g","i","n"," ","p","a","s","s","w","o","r","d","=","S","u","p","e","r","S","e","c","r","e","t","1","2","3","!"," ","r","e","j","e","c","t","e","d">>
TextLoading      == <<"L","o","a","d","i","n","g",".",".",".">>
TextSpecific     == <<"S","p","e","c","i","f","i","c"," ","e","r","r","o","r"," ","d","e","t","a","i","l","s">>
TextQuota        == <<"D","i","s","k"," ","q","u","o","t","a"," ","e","x","c","e","e","d","e","d",".">>
TextInvalidType  == <<"i","n","v","a","l","i","d"," ","t","y","p","e">>
TextThrownString == <<"s","t","r","i","n","g"," ","e","r","r","o","r"," ","m","e","s","s","a","g","e">>
TextMissing      == <<"r","e","s","o","u","r","c","e"," ","n","o","t"," ","f","o","u","n","d">>
TextUnknown      == <<"A","n"," ","u","n","k","n","o","w","n"," ","e","r","r","o","r"," ","o","c","c","u","r","r","e","d">>
TextPostgres     == <<"F","a","i","l","e","d"," ","t","o"," ","c","o","n","n","e","c","t"," ","t","o"," ","p","o","s","t","g","r","e","s",":","/","/","a","d","m","i","n",":","s","e","c","r","e","t","1","2","3","@","l","o","c","a","l","h","o","s","t",":","5","4","3","2">>

Texts == <<TextTimedOut, TextEacces, TextAuthFailure, TextConnTimeout,
           TextLoginMissing, TextPassword, TextLoading, TextSpecific, TextQuota,
           TextInvalidType, TextThrownString, TextMissing, TextUnknown,
           TextPostgres>>

DefaultGuard == SecretGuard(DEFAULT_GUARD_CONFIG)
RedactedTexts == [i \in 1..Len(Texts) |-> redact(DefaultGuard, Texts[i])]

\* redact(guard, input), read from RedactedTexts where that holds it
redactCached(guard, input) ==
    IF guard = DefaultGuard /\ \E i \in 1..Len(Texts) : Texts[i] = input
    THEN RedactedTexts[CHOOSE i \in 1..Len(Texts) : Texts[i] = input]
    ELSE redact(guard, input)

(***************************************************************************)
(* JavaScript values, as far as the sanitizer reads them                   *)
(***************************************************************************)
JStr(s)            == [t |-> "string", s |-> s, n |-> 0]
JUndefined         == [t |-> "undefined", s |-> <<>>, n |-> 0]
JObject(tag)       == [t |-> "object", s |-> tag, n |-> 0]
\* a function object: its name and its length property
JFunction(name, n) == [t |-> "function", s |-> name, n |-> n]
\* the outcome of an expression that throws a TypeError
TypeError          == [t |-> "throw", s |-> <<"T","y","p","e","E","r","r","o","r">>, n |-> 0]
IsThrow(v)         == v.t = "throw"
IsString(v)        == v.t = "string"

\* String(v), as `new Error(v)` converts its message
StringOf(v) ==
    CASE v.t = "string"    -> v.s
      [] v.t = "undefined" -> <<>>
      [] v.t = "function"  -> <<"f","u","n","c","t","i","o","n"," ">> \o v.s \o <<"(",")"," ","{"," ","[","n","a","t","i","v","e"," ","c","o","d","e","]"," ","}">>
      [] OTHER             -> <<"[","o","b","j","e","c","t"," ","O","b","j","e","c","t","]">>

\* the property key a value is converted to by `in` and by obj[value]
ToPropertyKey(v) == IF v.t = "string" THEN v.s ELSE <<"u","n","d","e","f","i","n","e","d">>

\* Values that can be thrown and caught: an Error instance (kind "Error"), a
\* string primitive, null, undefined, or a plain object. name, message and
\* stack are what reading the property yields; reading a property of null or
\* undefined throws.
ErrorValue(name, message, stack) ==
    [kind |-> "Error", str |-> <<>>, name |-> JStr(name),
     message |-> JStr(message), stack |-> stack]
StringValue(s) ==
    [kind |-> "string", str |-> s, name |-> JUndefined,
     message |-> JUndefined, stack |-> JUndefined]
NullValue ==
    [kind |-> "null", str |-> <<>>, name |-> JUndefined,
     message |-> JUndefined, stack |-> JUndefined]
UndefinedValue ==
    [kind |-> "undefined", str |-> <<>>, name |-> JUndefined,
     message |-> JUndefined, stack |-> JUndefined]
\* a plain object, with a message property or without one
ObjectValue(message) ==
    [kind |-> "object", str |-> <<>>, name |-> JUndefined,
     message |-> message, stack |-> JUndefined]
HasProperties(v) == v.kind \notin {"null", "undefined"}

(***************************************************************************)
(* sanitizer.ts: the tables                                                *)
(***************************************************************************)
\* process.env.NODE_ENV || 'development'
nodeEnv(env) == IF env.NODE_ENV = "" THEN "development" ELSE env.NODE_ENV

\* DEFAULT_CONFIG, with loaded what process.env.NODE_ENV || 'development'
\* evaluated to when the module was loaded
DEFAULT_CONFIG(loaded) ==
    [enabled |-> TRUE, environment |-> loaded, includeCorrelationId |-> TRUE,
     maxMessageLength |-> 500, sanitizeStackTraces |-> TRUE]

MsgTimeout    == <<"T","h","e"," ","o","p","e","r","a","t","i","o","n"," ","t","i","m","e","d"," ","o","u","t","."," ","P","l","e","a","s","e"," ","t","r","y"," ","a","g","a","i","n",".">>
MsgInvalid    == <<"T","h","e"," ","p","r","o","v","i","d","e","d"," ","d","a","t","a"," ","i","s"," ","i","n","v","a","l","i","d",".">>
MsgAuthn      == <<"A","u","t","h","e","n","t","i","c","a","t","i","o","n"," ","f","a","i","l","e","d",".">>
MsgAuthz      == <<"Y","o","u"," ","d","o"," ","n","o","t"," ","h","a","v","e"," ","p","e","r","m","i","s","s","i","o","n"," ","t","o"," ","p","e","r","f","o","r","m"," ","t","h","i","s"," ","a","c","t","i","o","n",".">>
MsgNotFound   == <<"T","h","e"," ","r","e","q","u","e","s","t","e","d"," ","r","e","s","o","u","r","c","e"," ","w","a","s"," ","n","o","t"," ","f","o","u","n","d",".">>
MsgRateLimit  == <<"T","o","o"," ","m","a","n","y"," ","r","e","q","u","e","s","t","s","."," ","P","l","e","a","s","e"," ","s","l","o","w"," ","d","o","w","n",".">>
MsgNetwork    == <<"A"," ","n","e","t","w","o","r","k"," ","e","r","r","o","r"," ","o","c","c","u","r","r","e","d","."," ","P","l","e","a","s","e"," ","c","h","e","c","k"," ","y","o","u","r"," ","c","o","n","n","e","c","t","i","o","n",".">>
MsgDatabase   == <<"A"," ","d","a","t","a","b","a","s","e"," ","e","r","r","o","r"," ","o","c","c","u","r","r","e","d","."," ","P","l","e","a","s","e"," ","t","r","y"," ","a","g","a","i","n",".">>
MsgConfig     == <<"A"," ","c","o","n","f","i","g","u","r","a","t","i","o","n"," ","e","r","r","o","r"," ","o","c","c","u","r","r","e","d",".">>
MsgDefault    == <<"A","n"," ","u","n","e","x","p","e","c","t","e","d"," ","e","r","r","o","r"," ","o","c","c","u","r","r","e","d","."," ","P","l","e","a","s","e"," ","t","r","y"," ","a","g","a","i","n",".">>

\* the own properties of the GENERIC_MESSAGES object literal
GENERIC_MESSAGES == <<
    <<<<"T","i","m","e","o","u","t","E","r","r","o","r">>,        JStr(MsgTimeout)>>,
    <<<<"V","a","l","i","d","a","t","i","o","n","E","r","r","o","r">>,     JStr(MsgInvalid)>>,
    <<<<"A","u","t","h","e","n","t","i","c","a","t","i","o","n","E","r","r","o","r">>, JStr(MsgAuthn)>>,
    <<<<"A","u","t","h","o","r","i","z","a","t","i","o","n","E","r","r","o","r">>,  JStr(MsgAuthz)>>,
    <<<<"N","o","t","F","o","u","n","d","E","r","r","o","r">>,       JStr(MsgNotFound)>>,
    <<<<"R","a","t","e","L","i","m","i","t","E","r","r","o","r">>,      JStr(MsgRateLimit)>>,
    <<<<"N","e","t","w","o","r","k","E","r","r","o","r">>,        JStr(MsgNetwork)>>,
    <<<<"D","a","t","a","b","a","s","e","E","r","r","o","r">>,       JStr(MsgDatabase)>>,
    <<<<"C","o","n","f","i","g","u","r","a","t","i","o","n","E","r","r","o","r">>,  JStr(MsgConfig)>> >>

\* What an object literal inherits from Object.prototype (the members the
\* model draws names from): `key in obj` and obj[key] see them too.
ObjectPrototype == <<
    <<<<"c","o","n","s","t","r","u","c","t","o","r">>,    JFunction(<<"O","b","j","e","c","t">>, 1)>>,
    <<<<"t","o","S","t","r","i","n","g">>,       JFunction(<<"t","o","S","t","r","i","n","g">>, 0)>>,
    <<<<"v","a","l","u","e","O","f">>,        JFunction(<<"v","a","l","u","e","O","f">>, 0)>>,
    <<<<"h","a","s","O","w","n","P","r","o","p","e","r","t","y">>, JFunction(<<"h","a","s","O","w","n","P","r","o","p","e","r","t","y">>, 1)>> >>

Keys(props) == {props[i][1] : i \in 1..Len(props)}
Lookup(props, key) == props[CHOOSE i \in 1..Len(props) : props[i][1] = key][2]

\* key in obj, for an object literal with the own properties own
HasProperty(own, key) == key \in Keys(own) \/ key \in Keys(ObjectPrototype)
\* obj[key], given that key in obj
GetProperty(own, key) ==
    IF key \in Keys(own) THEN Lookup(own, key) ELSE Lookup(ObjectPrototype, key)

MESSAGE_KEYWORDS == <<
    [keywords |-> <<<<"t","i","m","e","o","u","t">>, <<"t","i","m","e","d"," ","o","u","t">>, <<"d","e","a","d","l","i","n","e"," ","e","x","c","e","e","d","e","d">>>>,
     message |-> MsgTimeout],
    [keywords |-> <<<<"n","o","t"," ","f","o","u","n","d">>, <<"d","o","e","s"," ","n","o","t"," ","e","x","i","s","t">>, <<"n","o"," ","s","u","c","h"," ","f","i","l","e">>, <<"e","n","o","e","n","t">>>>,
     message |-> MsgNotFound],
    [keywords |-> <<<<"p","e","r","m","i","s","s","i","o","n">>, <<"a","c","c","e","s","s"," ","d","e","n","i","e","d">>, <<"f","o","r","b","i","d","d","e","n">>, <<"e","a","c","c","e","s">>, <<"e","p","e","r","m">>>>,
     message |-> MsgAuthz],
    [keywords |-> <<<<"i","n","v","a","l","i","d">>, <<"v","a","l","i","d","a","t","i","o","n">>, <<"m","a","l","f","o","r","m","e","d">>>>,
     message |-> MsgInvalid],
    [keywords |-> <<<<"n","e","t","w","o","r","k">>, <<"c","o","n","n","e","c","t","i","o","n">>, <<"s","o","c","k","e","t">>, <<"e","c","o","n","n","r","e","f","u","s","e","d">>, <<"e","c","o","n","n","r","e","s","e","t">>>>,
     message |-> MsgNetwork],
    [keywords |-> <<<<"a","u","t","h","e","n","t","i","c","a","t","i","o","n">>, <<"u","n","a","u","t","h","o","r","i","z","e","d">>, <<"u","n","a","u","t","h","e","n","t","i","c","a","t","e","d">>, <<"l","o","g","i","n">>>>,
     message |-> MsgAuthn],
    [keywords |-> <<<<"r","a","t","e"," ","l","i","m","i","t">>, <<"t","o","o"," ","m","a","n","y"," ","r","e","q","u","e","s","t","s">>, <<"t","h","r","o","t","t","l","e">>>>,
     message |-> MsgRateLimit],
    [keywords |-> <<<<"d","a","t","a","b","a","s","e">>, <<"q","u","e","r","y">>, <<"s","q","l">>, <<"d","b"," ","e","r","r","o","r">>>>,
     message |-> MsgDatabase] >>

(***************************************************************************)
(* sanitizer.ts: ErrorSanitizer                                            *)
(***************************************************************************)
\* keywords.some((keyword) => message.includes(keyword))
GroupHits(group, message) ==
    \E k \in 1..Len(group.keywords) : includes(message, group.keywords[k])

\* the for loop over MESSAGE_KEYWORDS: the first group that hits decides
FirstGroupMessage(hits) ==
    IF hits = {} THEN MsgDefault ELSE MESSAGE_KEYWORDS[SetMin(hits)].message
KeywordMessage(message) ==
    FirstGroupMessage({g \in 1..Len(MESSAGE_KEYWORDS) :
                          GroupHits(MESSAGE_KEYWORDS[g], message)})

\* ErrorSanitizer.getGenericMessage; error has properties
getGenericMessage(error) ==
    IF HasProperty(GENERIC_MESSAGES, ToPropertyKey(error.name))
    THEN GetProperty(GENERIC_MESSAGES, ToPropertyKey(error.name))
    ELSE IF ~IsString(error.message) THEN TypeError
    ELSE JStr(KeywordMessage(toLowerCase(error.message.s)))

Base36Digits == <<"0","1","2","3","4","5","6","7","8","9","a","b","c","d","e","f","g","h","i","j","k","l","m","n","o","p","q","r","s","t","u","v","w","x","y","z">>

\* Number.prototype.toString(36) of a natural number
RECURSIVE toString36(_)
toString36(n) ==
    IF n < 36 THEN <<Base36Digits[n + 1]>>
    ELSE toString36(n \div 36) \o <<Base36Digits[(n % 36) + 1]>>

\* String.prototype.padStart(width, pad) with a one-character pad
padStart(s, width, pad) ==
    [i \in 1..(IF Len(s) < width THEN width - Len(s) ELSE 0) |-> pad] \o s

\* Fault: an id built from the clock and the random part alone
generateCorrelationIdWithoutCounter(counter, now, random36) ==
    <<"e","r","r","-">> \o toString36(now) \o <<"-">>
        \o padStart(toString36(0), 4, "0") \o <<"-">>
        \o substring(random36, 2, 6)

\* ErrorSanitizer.generateCorrelationId after ++correlationCounter gave
\* counter; now is Date.now(), random36 is Math.random().toString(36)
generateCorrelationId(counter, now, random36) ==
    <<"e","r","r","-">> \o toString36(now) \o <<"-">>
        \o padStart(toString36(counter), 4, "0") \o <<"-">>
        \o substring(random36, 2, 6)

\* SecretGuard.redact on whatever error.message is: a falsy input (undefined,
\* the empty string) comes back as it is
redactValue(guard, v) ==
    IF IsString(v) THEN JStr(redactCached(guard, v.s)) ELSE v

\* Fault: the "..." appended to a long message that is not cut
truncateWithoutCut(cfg, v) ==
    CASE v.t = "string" ->
            IF Len(v.s) > cfg.maxMessageLength THEN JStr(v.s \o <<".",".",".">>) ELSE v
      [] v.t = "function" ->
            IF v.n > cfg.maxMessageLength THEN TypeError ELSE v
      [] OTHER -> TypeError

\* "Truncate if needed": reading .length of undefined throws; a function has
\* a length but no substring method
truncate(cfg, v) ==
    CASE v.t = "string" ->
            IF Len(v.s) > cfg.maxMessageLength
            THEN JStr(substring(v.s, 0, cfg.maxMessageLength) \o <<".",".",".">>)
            ELSE v
      [] v.t = "function" ->
            IF v.n > cfg.maxMessageLength THEN TypeError ELSE v
      [] OTHER -> TypeError

\* the message sanitize() computes before truncation
externalMessage(cfg, guard, error) ==
    IF ~cfg.enabled \/ cfg.environment = "development"
    THEN redactValue(guard, error.message)
    ELSE getGenericMessage(error)

\* Fault: the correlation id put on the external record unconditionally
SanitizedErrorAlwaysWithId(cfg, correlationId, now, error, context, message) ==
    [threw |-> FALSE,
     external |-> [message |-> message,
                   type |-> error.name,
                   correlationId |-> JStr(correlationId)],
     internal |-> [correlationId |-> JStr(correlationId),
                   originalMessage |-> error.message,
                   originalStack |-> error.stack,
                   context |-> context,
                   timestamp |-> now]]

\* Fault: the internal record built from the external message
SanitizedErrorInternalFromExternal(cfg, correlationId, now, error, context, message) ==
    [threw |-> FALSE,
     external |-> [message |-> message,
                   type |-> error.name,
                   correlationId |-> IF cfg.includeCorrelationId
                                     THEN JStr(correlationId) ELSE JUndefined],
     internal |-> [correlationId |-> JStr(correlationId),
                   originalMessage |-> message,
                   originalStack |-> error.stack,
                   context |-> context,
                   timestamp |-> now]]

\* the { external, internal } pair sanitize() returns around message
SanitizedError(cfg, correlationId, now, error, context, message) ==
    [threw |-> FALSE,
     external |-> [message |-> message,
                   type |-> error.name,
                   correlationId |-> IF cfg.includeCorrelationId
                                     THEN JStr(correlationId) ELSE JUndefined],
     internal |-> [correlationId |-> JStr(correlationId),
                   originalMessage |-> error.message,
                   originalStack |-> error.stack,
                   context |-> context,
                   timestamp |-> now]]

\* a TypeError raised while the message is computed leaves the method
ReturnOrThrow(cfg, correlationId, now, error, context, message) ==
    IF IsThrow(message) THEN [threw |-> TRUE]
    ELSE SanitizedError(cfg, correlationId, now, error, context, message)

TruncateUnlessThrown(cfg, v) == IF IsThrow(v) THEN v ELSE truncate(cfg, v)

\* ErrorSanitizer.sanitize, given the id generateCorrelationId returned and
\* the clock: the { external, internal } pair, or threw when a TypeError
\* leaves the method
sanitize(cfg, guard, correlationId, now, error, context) ==
    IF ~HasProperties(error) THEN [threw |-> TRUE]
    ELSE ReturnOrThrow(cfg, correlationId, now, error, context,
                       TruncateUnlessThrown(cfg, externalMessage(cfg, guard, error)))

\* the stack a `new Error(message)` made inside createSafeError captures
CapturedStack(message) ==
    JStr(<<"E","r","r","o","r",":"," ">> \o message \o <<"\n"," "," "," "," ","a","t"," ","E","r","r","o","r","S","a","n","i","t","i","z","e","r",".","c","r","e","a","t","e","S","a","f","e","E","r","r","o","r">>)

\* the Error createSafeError builds from what sanitize returned
SafeErrorFrom(cfg, r) ==
    IF r.threw THEN [threw |-> TRUE]
    ELSE [threw |-> FALSE,
          safeError |->
            [name |-> r.external.type,
             message |-> JStr(StringOf(r.external.message)),
             correlationId |-> r.internal.correlationId,
             stack |-> IF cfg.sanitizeStackTraces /\ cfg.environment = "production"
                       THEN JUndefined
                       ELSE CapturedStack(StringOf(r.external.message))]]

\* ErrorSanitizer.createSafeError, given the same as sanitize
createSafeError(cfg, guard, correlationId, now, error, context) ==
    SafeErrorFrom(cfg, sanitize(cfg, guard, correlationId, now, error, context))

\* "Truncate if needed" on a string
truncateText(cfg, result) ==
    IF Len(result) > cfg.maxMessageLength
    THEN substring(result, 0, cfg.maxMessageLength) \o <<".",".",".">>
    ELSE result

\* Fault: sanitizeMessage mapping to a generic message in production
sanitizeMessageMapped(cfg, guard, message) ==
    IF ~cfg.enabled THEN message
    ELSE IF cfg.environment = "production"
    THEN truncateText(cfg, KeywordMessage(toLowerCase(message)))
    ELSE truncateText(cfg, redactCached(guard, message))

\* ErrorSanitizer.sanitizeMessage on a string
sanitizeMessage(cfg, guard, message) ==
    IF ~cfg.enabled THEN message
    ELSE truncateText(cfg, redactCached(guard, message))

\* the Error sanitizeUnknownError hands to createSafeError
wrapUnknown(error) ==
    IF error.kind = "Error" THEN error
    ELSE [kind |-> "Error", str |-> <<>>,
          name |-> JStr(<<"U","n","k","n","o","w","n","E","r","r","o","r">>),
          message |-> JStr(IF error.kind = "string" THEN error.str
                           ELSE TextUnknown),
          stack |-> JStr(<<"E","r","r","o","r",":"," ">>
                         \o (IF error.kind = "string" THEN error.str
                             ELSE TextUnknown)
                         \o <<"\n"," "," "," "," ","a","t"," ","s","a","n","i","t","i","z","e","U","n","k","n","o","w","n","E","r","r","o","r">>)]

\* { ...base, ...partial }
Merge(base, partial) ==
    [k \in DOMAIN base |-> IF k \in DOMAIN partial THEN partial[k] ELSE base[k]]

(***************************************************************************)
(* Inputs                                                                  *)
(***************************************************************************)
Environments == {"production", "development", "test"}
\* 500 is the default; 20 is shorter than every generic message
MaxMessageLengths == {20, 500}

Configs ==
    [enabled : BOOLEAN, environment : Environments, includeCorrelationId : BOOLEAN,
     maxMessageLength : MaxMessageLengths, sanitizeStackTraces : BOOLEAN]

\* Partial<ErrorSanitizerConfig>: no key, one key, or all of them
EmptyPartial == [k \in {} |-> TRUE]
OneKey(key, values) == {[k \in {key} |-> v] : v \in values}
SinglePartials ==
    OneKey("enabled", BOOLEAN) \cup OneKey("environment", Environments)
    \cup OneKey("includeCorrelationId", BOOLEAN)
    \cup OneKey("maxMessageLength", MaxMessageLengths)
    \cup OneKey("sanitizeStackTraces", BOOLEAN)
PartialConfigs == {EmptyPartial} \cup SinglePartials \cup Configs

\* the guards a sanitizer is constructed with
Guards ==
    {DefaultGuard,
     SecretGuard([DEFAULT_GUARD_CONFIG EXCEPT !.enabled = FALSE])}

SomeStack == JStr(<<"E","r","r","o","r","\n"," "," "," "," ","a","t"," ","h","a","n","d","l","e","r"," ","(","/","s","r","v","/","a","p","p","/","d","b",".","t","s",":","1","0",":","5",")">>)

ErrorInputs == {
    ErrorValue(<<"E","r","r","o","r">>, TextTimedOut, SomeStack),
    ErrorValue(<<"E","r","r","o","r">>, TextEacces, SomeStack),
    ErrorValue(<<"A","u","t","h","e","n","t","i","c","a","t","i","o","n","E","r","r","o","r">>, TextAuthFailure, SomeStack),
    ErrorValue(<<"N","o","t","F","o","u","n","d","E","r","r","o","r">>, TextConnTimeout, SomeStack),
    ErrorValue(<<"E","r","r","o","r">>, TextLoginMissing, SomeStack),
    ErrorValue(<<"E","r","r","o","r">>, TextPassword, SomeStack),
    ErrorValue(<<"E","r","r","o","r">>, TextLoading, SomeStack),
    ErrorValue(<<"E","r","r","o","r">>, <<>>, JUndefined),
    ErrorValue(<<"E","r","r","o","r">>, TextSpecific, SomeStack),
    ErrorValue(<<"E","r","r","o","r">>, TextQuota, SomeStack),
    ErrorValue(<<"T","y","p","e","E","r","r","o","r">>, TextInvalidType, SomeStack),
    ErrorValue(<<"c","o","n","s","t","r","u","c","t","o","r">>, TextSpecific, SomeStack),
    ErrorValue(<<"t","o","S","t","r","i","n","g">>, TextTimedOut, SomeStack) }

\* what a catch block can receive besides an Error
NonErrorInputs == {
    StringValue(TextThrownString),
    NullValue,
    UndefinedValue,
    ObjectValue(JUndefined),
    ObjectValue(JStr(TextMissing)) }

ThrownInputs == ErrorInputs \cup NonErrorInputs

ContextInputs == {JUndefined, JObject(<<"{","u","s","e","r","I","d",":"," ","'","1","2","3","'","}">>)}

MessageInputs == {
    <<>>,
    TextTimedOut,
    TextPassword,
    TextLoading,
    TextQuota,
    TextPostgres }

\* Date.now() and Math.random().toString(36)
ClockInputs  == {36}
RandomInputs == {<<"0",".","k","3","x","9","f","2","a","7","c">>}

\* the inputs of the specification that varies the clock and the random part
IdErrorInputs   == {ErrorValue(<<"E","r","r","o","r">>, TextSpecific, SomeStack), NullValue}
IdPartials      == OneKey("environment", Environments) \cup OneKey("includeCorrelationId", BOOLEAN)
IdClockInputs   == {35, 36}
IdRandomInputs  == {<<"0">>, <<"0",".","k","3","x","9","f","2","a","7","c">>}

\* the number of correlation ids one instance generates in the model
MaxIds == 3

(***************************************************************************)
(* State                                                                   *)
(***************************************************************************)
VARIABLES
    config,              \* ErrorSanitizer.config
    secretGuard,         \* ErrorSanitizer.secretGuard
    correlationCounter,  \* ErrorSanitizer.correlationCounter
    issued,              \* the ids generateCorrelationId returned, in order
    ret,                 \* the call that returned last, its inputs and outcome
    patternObjects,      \* the SecretPattern objects that exist, by reference
    guardConfig,         \* SecretGuard.config of the guard under test
    guardPatterns,       \* SecretGuard.patterns: references into patternObjects
    returned,            \* the array getPatterns / getDefaultSecretPatterns
                         \* handed to the caller: references into patternObjects
    defaultEnvironment,  \* DEFAULT_CONFIG.environment of sanitizer.ts, evaluated
                         \* once, when the module is loaded
    processEnv,          \* process.env.NODE_ENV, process.env.HOME,
                         \* process.env.USERPROFILE, process.cwd()
    arrays,              \* the basePaths arrays that exist, by reference; the
                         \* first is DEFAULT_CONFIG.basePaths of path-sanitizer.ts
    pathSanitizers,      \* the PathSanitizer instances: config, basePaths a
                         \* reference into arrays
    errorSanitizers,     \* the ErrorSanitizer instances the module functions
                         \* made: config, secretGuard a reference, counter
    secretGuards,        \* the SecretGuard instances the module functions made
    globalErrorSanitizer, \* the module variables: a reference, 0 for null
    globalSecretGuard,
    globalPathSanitizer,
    held                 \* per global, the reference a caller got from getX
                         \* and kept, and what it observed of it when the
                         \* global was reconfigured

sanitizerVars == <<config, secretGuard, correlationCounter, issued>>
guardVars     == <<patternObjects, guardConfig, guardPatterns, returned>>
pathVars      == <<processEnv, arrays, pathSanitizers>>
globalVars    == <<defaultEnvironment, errorSanitizers, secretGuards,
                   globalErrorSanitizer, globalSecretGuard, globalPathSanitizer,
                   held>>
vars == <<sanitizerVars, ret, guardVars, pathVars, globalVars>>

\* what the operations of one component leave alone
notSanitizer == <<guardVars, pathVars, globalVars>>
notGuard     == <<sanitizerVars, pathVars, globalVars>>
notPaths     == <<sanitizerVars, guardVars, globalVars>>
notGlobals   == <<sanitizerVars, guardVars>>
allButRet    == <<sanitizerVars, guardVars, pathVars, globalVars>>

NoRet == [op |-> "none"]

\* new ErrorSanitizer({ environment, ...partial }, guard)
InitOn(partials, guards) ==
    /\ \E environment \in Environments, partial \in partials :
          config = Merge(Merge(DEFAULT_CONFIG(defaultEnvironment),
                               [environment |-> environment]), partial)
    /\ secretGuard \in guards
    /\ correlationCounter = 0
    /\ issued = <<>>
    /\ ret = NoRet

\* generateCorrelationId(): ++this.correlationCounter, then the id
NextId(now, random36) == generateCorrelationId(correlationCounter + 1, now, random36)

\* ErrorSanitizer.sanitize(error, context)
Sanitize(error, context, now, random36) ==
    /\ ret = NoRet
    /\ correlationCounter < MaxIds
    /\ correlationCounter' = correlationCounter + 1
    /\ issued' = Append(issued, NextId(now, random36))
    /\ ret' = [op |-> "sanitize", error |-> error, context |-> context,
               out |-> sanitize(config, secretGuard, NextId(now, random36),
                                now, error, context)]
    /\ UNCHANGED <<config, secretGuard, notSanitizer>>

\* ErrorSanitizer.createSafeError(error, context)
CreateSafeError(error, context, now, random36) ==
    /\ ret = NoRet
    /\ correlationCounter < MaxIds
    /\ correlationCounter' = correlationCounter + 1
    /\ issued' = Append(issued, NextId(now, random36))
    /\ ret' = [op |-> "createSafeError", error |-> error, context |-> context,
               out |-> createSafeError(config, secretGuard, NextId(now, random36),
                                       now, error, context)]
    /\ UNCHANGED <<config, secretGuard, notSanitizer>>

\* ErrorSanitizer.sanitizeMessage(message)
SanitizeMessage(message) ==
    /\ ret = NoRet
    /\ ret' = [op |-> "sanitizeMessage", message |-> message,
               out |-> sanitizeMessage(config, secretGuard, message)]
    /\ UNCHANGED <<config, secretGuard, correlationCounter, issued, notSanitizer>>

\* ErrorSanitizer.configure(partial)
Configure(partial) ==
    /\ ret = NoRet
    /\ config' = Merge(config, partial)
    /\ config' # config
    /\ UNCHANGED <<secretGuard, correlationCounter, issued, ret, notSanitizer>>

WrappedRet(failed, error, context, hasLogger, rethrow, outcome, thrown, logged) ==
    [op |-> "withErrorHandling", failed |-> failed, error |-> error,
     context |-> context, hasLogger |-> hasLogger, rethrow |-> rethrow,
     outcome |-> outcome, thrown |-> thrown, logged |-> logged]

\* A call of the function withErrorHandling(fn, {logger, context, rethrow})
\* returned, with fn resolving: the value is passed through.
WrappedResolves(context, hasLogger, rethrow) ==
    /\ ret = NoRet
    /\ ret' = WrappedRet(FALSE, UndefinedValue, context, hasLogger, rethrow,
                         "resolved", [kind |-> "none"], <<>>)
    /\ UNCHANGED <<config, secretGuard, correlationCounter, issued, notSanitizer>>

\* logger.error('Error occurred', { correlationId, message, stack, ...context })
LoggedEntries(hasLogger, internal, context) ==
    IF hasLogger
    THEN <<[correlationId |-> internal.correlationId,
            message |-> internal.originalMessage,
            stack |-> internal.originalStack,
            context |-> context]>>
    ELSE <<>>

\* the catch block, given what sanitize returned for the log (first, with the
\* id id1) and what createSafeError returns (safe, with the id id2)
CatchBlock(error, context, hasLogger, rethrow, id1, first, id2, safe) ==
    IF first.threw
    THEN /\ correlationCounter' = correlationCounter + 1
         /\ issued' = Append(issued, id1)
         /\ ret' = WrappedRet(TRUE, error, context, hasLogger, rethrow,
                              "rejected", [kind |-> "TypeError"], <<>>)
    ELSE IF rethrow
    THEN /\ correlationCounter' = correlationCounter + 2
         /\ issued' = issued \o <<id1, id2>>
         /\ ret' = WrappedRet(TRUE, error, context, hasLogger, rethrow,
                              "rejected",
                              [kind |-> "safeError", safeError |-> safe.safeError],
                              LoggedEntries(hasLogger, first.internal, context))
    ELSE /\ correlationCounter' = correlationCounter + 1
         /\ issued' = Append(issued, id1)
         /\ ret' = WrappedRet(TRUE, error, context, hasLogger, rethrow,
                              "resolved", [kind |-> "none"],
                              LoggedEntries(hasLogger, first.internal, context))

\* The same with fn rejecting with error: the catch block. It sanitizes error
\* for the log and, when rethrowing, once more inside createSafeError; a
\* TypeError thrown by sanitize leaves the wrapper as it is.
WrappedRejects(error, context, hasLogger, rethrow, now, random36, now2, random2) ==
    /\ ret = NoRet
    /\ correlationCounter + (IF rethrow THEN 2 ELSE 1) <= MaxIds
    /\ CatchBlock(error, context, hasLogger, rethrow,
                  NextId(now, random36),
                  sanitize(config, secretGuard, NextId(now, random36), now, error, context),
                  generateCorrelationId(correlationCounter + 2, now2, random2),
                  createSafeError(config, secretGuard,
                                  generateCorrelationId(correlationCounter + 2, now2, random2),
                                  now2, error, context))
    /\ UNCHANGED <<config, secretGuard, notSanitizer>>

\* sanitizeUnknownError(error, context), on the sanitizer getErrorSanitizer()
\* returns
SanitizeUnknownError(error, context, now, random36) ==
    /\ ret = NoRet
    /\ correlationCounter < MaxIds
    /\ correlationCounter' = correlationCounter + 1
    /\ issued' = Append(issued, NextId(now, random36))
    /\ ret' = [op |-> "sanitizeUnknownError", error |-> error, context |-> context,
               out |-> createSafeError(config, secretGuard, NextId(now, random36), now,
                                       wrapUnknown(error), context)]
    /\ UNCHANGED <<config, secretGuard, notSanitizer>>

\* The caller has the result; calls are synchronous, the next one starts
\* after the last has returned.
TakeResult ==
    /\ ret # NoRet
    /\ ret' = NoRet
    /\ UNCHANGED allButRet

NextOn(errors, thrown, contexts, messages, partials, clock, randoms) ==
    \/ \E e \in errors, c \in contexts, now \in clock, r \in randoms :
          Sanitize(e, c, now, r)
    \/ \E e \in errors, c \in contexts, now \in clock, r \in randoms :
          CreateSafeError(e, c, now, r)
    \/ \E m \in messages : SanitizeMessage(m)
    \/ \E p \in partials : Configure(p)
    \/ \E c \in contexts, l \in BOOLEAN, rt \in BOOLEAN : WrappedResolves(c, l, rt)
    \/ \E e \in thrown, c \in contexts, l \in BOOLEAN, rt \in BOOLEAN,
          now \in clock, r \in randoms, now2 \in clock, r2 \in randoms :
          WrappedRejects(e, c, l, rt, now, r, now2, r2)
    \/ \E e \in thrown, c \in contexts, now \in clock, r \in randoms :
          SanitizeUnknownError(e, c, now, r)
    \/ TakeResult

\* no SecretGuard under test, no caller holding a pattern array
NoArray == <<0>>
GuardIdle ==
    /\ patternObjects = <<>>
    /\ guardConfig = DEFAULT_GUARD_CONFIG
    /\ guardPatterns = <<>>
    /\ returned = NoArray

\* no PathSanitizer constructed
NoEnv == [NODE_ENV |-> "", HOME |-> <<>>, USERPROFILE |-> <<>>, cwd |-> <<"/">>]
PathsIdle ==
    /\ processEnv = NoEnv
    /\ arrays = <<<<>>>>
    /\ pathSanitizers = <<>>

\* sanitizer.ts loaded in the environment the process has: DEFAULT_CONFIG
\* evaluated
ModuleLoaded == defaultEnvironment = nodeEnv(processEnv)

\* no module function called yet, no reference kept
Kinds == {"errorSanitizer", "secretGuard", "pathSanitizer"}
NotHeld == [k \in Kinds |-> [ref |-> 0, reconfigured |-> FALSE, seen |-> <<>>]]
GlobalsIdle ==
    /\ errorSanitizers = <<>>
    /\ secretGuards = <<>>
    /\ globalErrorSanitizer = 0
    /\ globalSecretGuard = 0
    /\ globalPathSanitizer = 0
    /\ held = NotHeld

Init ==
    /\ PathsIdle /\ ModuleLoaded
    /\ InitOn(PartialConfigs, Guards) /\ GuardIdle /\ GlobalsIdle
Next == NextOn(ThrownInputs, ThrownInputs, ContextInputs, MessageInputs,
               {EmptyPartial} \cup SinglePartials, ClockInputs, RandomInputs)
Spec == Init /\ [][Next]_vars

\* One sanitizer and few errors, under a clock and a random source that vary.
InitIds ==
    /\ PathsIdle /\ ModuleLoaded
    /\ InitOn({EmptyPartial}, {DefaultGuard}) /\ GuardIdle /\ GlobalsIdle
NextIds == NextOn(IdErrorInputs, IdErrorInputs, {JUndefined}, {TextLoading},
                  IdPartials, IdClockInputs, IdRandomInputs)
SpecIds == InitIds /\ [][NextIds]_vars

(***************************************************************************)
(* secret-guard.ts: the other methods of SecretGuard, with the pattern     *)
(* objects held by reference                                               *)
(***************************************************************************)
\* Fault: containsSecrets without the check of config.enabled
containsSecretsIgnoringEnabled(guard, input) ==
    IF Len(input) = 0 THEN FALSE
    ELSE \E i \in 1..Len(guard.patterns) :
            RegExpTest(ResetLastIndex(guard.patterns[i]), input)

\* SecretGuard.containsSecrets: lastIndex is reset before every test
containsSecrets(guard, input) ==
    IF ~guard.config.enabled \/ Len(input) = 0 THEN FALSE
    ELSE \E i \in 1..Len(guard.patterns) :
            RegExpTest(ResetLastIndex(guard.patterns[i]), input)

NamesOf(patterns) == [i \in 1..Len(patterns) |-> patterns[i].name]

\* SecretGuard.detectSecretTypes: the names of the patterns that match, in
\* the order of the list
detectSecretTypes(guard, input) ==
    IF ~guard.config.enabled \/ Len(input) = 0 THEN <<>>
    ELSE NamesOf(SelectSeq(guard.patterns,
                          LAMBDA p : RegExpTest(ResetLastIndex(p), input)))

\* the entries of guard.patterns a containsSecrets(input) scan visits: up to
\* the first pattern that matches
UpToFirst(hits, n) == IF hits = {} THEN 1..n ELSE 1..SetMin(hits)
Visited(guard, input) ==
    UpToFirst({i \in 1..Len(guard.patterns) :
                  RegExpTest(ResetLastIndex(guard.patterns[i]), input)},
              Len(guard.patterns))

\* the pattern objects after a scan that reset and tested the entries at the
\* positions in visited of the list refs
AfterTests(objects, refs, visited, input) ==
    [r \in 1..Len(objects) |->
        IF \E i \in visited : refs[i] = r
        THEN [objects[r] EXCEPT
                 !.lastIndex = lastIndexAfterTest(ResetLastIndex(objects[r]), input)]
        ELSE objects[r]]

\* the pattern objects after redact: every entry of refs was reset, and
\* replace leaves lastIndex at 0
AfterReplace(objects, refs) ==
    [r \in 1..Len(objects) |->
        IF \E i \in 1..Len(refs) : refs[i] = r
        THEN ResetLastIndex(objects[r]) ELSE objects[r]]

\* the guard whose patterns are the objects refs point to
GuardOf(objects, cfg, refs) ==
    [config |-> cfg, patterns |-> [i \in 1..Len(refs) |-> objects[refs[i]]]]

\* this.patterns.filter((p) => p.name !== name)
removePattern(objects, refs, name) ==
    SelectSeq(refs, LAMBDA r : objects[r].name # name)

\* the module's DEFAULT_SECRET_PATTERNS array: its objects are created first
DefaultRefs == [i \in 1..Len(DEFAULT_SECRET_PATTERNS) |-> i]

\* patterns of the test suite, and one a caller adds under a name in use
CustomIdPattern ==
    [name |-> "custom-id", ci |-> FALSE, global |-> TRUE, lastIndex |-> 0,
     re |-> Cat(<<Lit(<<"C","U","S","T","O","M","-">>), Exactly(Chr(Upper \cup Digit), 10)>>)]
DynamicPattern ==
    [name |-> "dynamic", ci |-> FALSE, global |-> TRUE, lastIndex |-> 0,
     re |-> Cat(<<Lit(<<"D","Y","N","A","M","I","C","-">>), Exactly(Chr(Digit), 5)>>)]
SecondCustomId == [DynamicPattern EXCEPT !.name = "custom-id"]
FakePattern ==
    [name |-> "fake", ci |-> FALSE, global |-> TRUE, lastIndex |-> 0, re |-> Lit(<<"f","a","k","e">>)]

TextApiKey   == <<"a","p","i","_","k","e","y","=","s","k","_","l","i","v","e","_","1","2","3","4","5","6","7","8","9","0","a","b","c","d","e","f">>
TextShadowed == <<"x","p","a","s","s","w","o","r","d","=","a","b","c","d"," ","p","a","s","s","w","o","r","d","=","a","b","c","d">>
TextCustomId == <<"C","U","S","T","O","M","-","A","B","C","D","1","2","3","4","5","6">>
TextDynamic  == <<"C","o","d","e",":"," ","D","Y","N","A","M","I","C","-","1","2","3","4","5">>
TextNested   == <<"p","a","s","s","w","o","r","d","=","a","p","i","_","k","e","y","=","s","k","_","l","i","v","e","_","1","2","3","4","5","6","7","8","9","0","a","b","c","d","e","f">>
TextOverlap  == <<"a","p","i","_","k","e","y","=","a","a","a","a","a","a","a","a","a","a","a","a","a","a","-","t","o","k","e","n","=","a","b","c","d","e","f","g","h">>
TextEnvToken == <<"t","o","k","e","n","=","D","B","_","K","E","Y","="," ","a","b","c","d","e","f","g","h">>

GuardTexts ==
    {<<>>, TextApiKey, TextShadowed, TextCustomId, TextLoading, TextPassword, TextNested}

\* Partial<SecretGuardConfig> given to the constructor
PreserveLengths == {0, 4, 40}
GuardPartials ==
    {EmptyPartial, [enabled |-> FALSE],
     [customPatterns |-> <<CustomIdPattern>>],
     [enabled |-> FALSE, customPatterns |-> <<CustomIdPattern>>]}
    \cup {[preservePartial |-> TRUE, preserveLength |-> k] : k \in PreserveLengths}
    \cup {[preservePartial |-> TRUE, preserveLength |-> k,
           customPatterns |-> <<CustomIdPattern>>] : k \in PreserveLengths}

\* the pattern objects the model lets exist, and the length down to which a
\* caller pops the array it was handed
MaxPatternObjects == 12
MinArrayLength == 10

\* the sanitizer is not under test
SanitizerIdle ==
    /\ config = DEFAULT_CONFIG("development")
    /\ secretGuard = DefaultGuard
    /\ correlationCounter = 0
    /\ issued = <<>>

\* new SecretGuard(partial): { ...DEFAULT_CONFIG, ...config } and
\* [...DEFAULT_SECRET_PATTERNS, ...this.config.customPatterns]
NewSecretGuard(partial) ==
    /\ guardConfig = Merge(DEFAULT_GUARD_CONFIG, partial)
    /\ patternObjects = DEFAULT_SECRET_PATTERNS \o guardConfig.customPatterns
    /\ guardPatterns = [i \in 1..Len(patternObjects) |-> i]
    /\ returned = NoArray
    /\ ret = NoRet

GuardUnderTest == GuardOf(patternObjects, guardConfig, guardPatterns)

\* guard.redact(input)
Redact(input) ==
    /\ ret = NoRet
    /\ ret' = [op |-> "redact", input |-> input, out |-> redact(GuardUnderTest, input)]
    /\ patternObjects' = IF ~guardConfig.enabled \/ Len(input) = 0 THEN patternObjects
                         ELSE AfterReplace(patternObjects, guardPatterns)
    /\ UNCHANGED <<guardConfig, guardPatterns, returned, notGuard>>

\* guard.containsSecrets(input)
ContainsSecrets(input) ==
    /\ ret = NoRet
    /\ ret' = [op |-> "containsSecrets", input |-> input,
               out |-> containsSecrets(GuardUnderTest, input)]
    /\ patternObjects' =
          IF ~guardConfig.enabled \/ Len(input) = 0 THEN patternObjects
          ELSE AfterTests(patternObjects, guardPatterns,
                          Visited(GuardUnderTest, input), input)
    /\ UNCHANGED <<guardConfig, guardPatterns, returned, notGuard>>

\* guard.detectSecretTypes(input)
DetectSecretTypes(input) ==
    /\ ret = NoRet
    /\ ret' = [op |-> "detectSecretTypes", input |-> input,
               out |-> detectSecretTypes(GuardUnderTest, input)]
    /\ patternObjects' =
          IF ~guardConfig.enabled \/ Len(input) = 0 THEN patternObjects
          ELSE AfterTests(patternObjects, guardPatterns,
                          1..Len(guardPatterns), input)
    /\ UNCHANGED <<guardConfig, guardPatterns, returned, notGuard>>

\* guard.addPattern(pattern) with an object the caller has just created
AddPattern(pattern) ==
    /\ ret = NoRet
    /\ Len(patternObjects) < MaxPatternObjects
    /\ patternObjects' = Append(patternObjects, pattern)
    /\ guardPatterns' = Append(guardPatterns, Len(patternObjects) + 1)
    /\ ret' = [op |-> "addPattern", pattern |-> pattern]
    /\ UNCHANGED <<guardConfig, returned, notGuard>>

\* guard.removePattern(name): true when the list became shorter
RemovePattern(name) ==
    /\ ret = NoRet
    /\ guardPatterns' = removePattern(patternObjects, guardPatterns, name)
    /\ ret' = [op |-> "removePattern", name |-> name, before |-> guardPatterns,
               out |-> Len(guardPatterns') < Len(guardPatterns)]
    /\ UNCHANGED <<patternObjects, guardConfig, returned, notGuard>>

\* guard.getPatterns(): [...this.patterns], a new array of the same objects
GetPatterns ==
    /\ ret = NoRet
    /\ returned' = guardPatterns
    /\ ret' = [op |-> "getPatterns"]
    /\ UNCHANGED <<patternObjects, guardConfig, guardPatterns, notGuard>>

\* getDefaultSecretPatterns(): [...DEFAULT_SECRET_PATTERNS]
GetDefaultSecretPatterns ==
    /\ ret = NoRet
    /\ returned' = DefaultRefs
    /\ ret' = [op |-> "getDefaultSecretPatterns"]
    /\ UNCHANGED <<patternObjects, guardConfig, guardPatterns, notGuard>>

\* The caller pushes a new pattern object onto the array it was handed.
CallerPushes(pattern) ==
    /\ ret = NoRet
    /\ returned # NoArray
    /\ Len(patternObjects) < MaxPatternObjects
    /\ patternObjects' = Append(patternObjects, pattern)
    /\ returned' = Append(returned, Len(patternObjects) + 1)
    /\ ret' = [op |-> "callerPushes"]
    /\ UNCHANGED <<guardConfig, guardPatterns, notGuard>>

\* The caller pops the last element of the array it was handed.
CallerPops ==
    /\ ret = NoRet
    /\ returned # NoArray
    /\ Len(returned) > MinArrayLength
    /\ returned' = SubSeq(returned, 1, Len(returned) - 1)
    /\ ret' = [op |-> "callerPops"]
    /\ UNCHANGED <<patternObjects, guardConfig, guardPatterns, notGuard>>

\* The caller assigns to a field of an entry of the array it was handed:
\* patterns[i].pattern = regex, the entry being the guard's own object.
CallerChangesEntry(i, pattern) ==
    /\ ret = NoRet
    /\ returned # NoArray
    /\ i \in 1..Len(returned)
    /\ patternObjects[returned[i]].re # pattern.re
    /\ patternObjects' =
          [patternObjects EXCEPT ![returned[i]].re = pattern.re,
                                 ![returned[i]].ci = pattern.ci,
                                 ![returned[i]].global = pattern.global,
                                 ![returned[i]].lastIndex = pattern.lastIndex]
    /\ ret' = [op |-> "callerChangesEntry", index |-> i]
    /\ UNCHANGED <<guardConfig, guardPatterns, returned, notGuard>>

\* Another SecretGuard, constructed with the defaults and so holding the
\* built-in pattern objects as well, runs containsSecrets(input).
OtherContainsSecrets(input) ==
    /\ ret = NoRet
    /\ ret' = [op |-> "otherContainsSecrets", input |-> input,
               out |-> containsSecrets(
                          GuardOf(patternObjects, DEFAULT_GUARD_CONFIG, DefaultRefs), input)]
    /\ patternObjects' =
          AfterTests(patternObjects, DefaultRefs,
                     Visited(GuardOf(patternObjects, DEFAULT_GUARD_CONFIG, DefaultRefs),
                             input), input)
    /\ UNCHANGED <<guardConfig, guardPatterns, returned, notGuard>>

\* One SecretGuard, its configuration varying, under redaction and detection.
InitGuard ==
    /\ SanitizerIdle /\ PathsIdle /\ GlobalsIdle /\ ModuleLoaded
    /\ \E partial \in GuardPartials : NewSecretGuard(partial)
NextGuard ==
    \/ \E x \in GuardTexts : Redact(x)
    \/ \E x \in GuardTexts : ContainsSecrets(x)
    \/ \E x \in GuardTexts : DetectSecretTypes(x)
    \/ AddPattern(DynamicPattern)
    \/ RemovePattern("api-key")
    \/ TakeResult
SpecGuard == InitGuard /\ [][NextGuard]_vars

\* One default SecretGuard, its pattern list managed and handed out.
PatternTexts == {TextApiKey, TextDynamic, TextLoading}
InitPatterns ==
    /\ SanitizerIdle /\ PathsIdle /\ GlobalsIdle /\ ModuleLoaded
    /\ \E partial \in {EmptyPartial, [customPatterns |-> <<CustomIdPattern>>]} :
          NewSecretGuard(partial)
NextPatterns ==
    \/ \E x \in PatternTexts : Redact(x)
    \/ ContainsSecrets(TextApiKey)
    \/ \E p \in {DynamicPattern, SecondCustomId} : AddPattern(p)
    \/ \E name \in {"api-key", "custom-id", "non-existent"} : RemovePattern(name)
    \/ GetPatterns
    \/ GetDefaultSecretPatterns
    \/ CallerPushes(FakePattern)
    \/ CallerPops
    \/ \E i \in {1, 11} : CallerChangesEntry(i, FakePattern)
    \/ TakeResult
SpecPatterns == InitPatterns /\ [][NextPatterns]_vars


\* Scans of one SecretGuard whose list grows and shrinks, and of a second
\* instance, over the pattern objects they share.
ScanTexts == {TextApiKey, TextOverlap, TextDynamic, TextEnvToken}
InitScans ==
    /\ SanitizerIdle /\ PathsIdle /\ GlobalsIdle /\ ModuleLoaded
    /\ \E partial \in {EmptyPartial, [customPatterns |-> <<CustomIdPattern>>]} :
          NewSecretGuard(partial)
NextScans ==
    \/ \E x \in ScanTexts : Redact(x)
    \/ \E x \in ScanTexts : ContainsSecrets(x)
    \/ \E x \in ScanTexts : DetectSecretTypes(x)
    \/ \E x \in ScanTexts : OtherContainsSecrets(x)
    \/ \E p \in {DynamicPattern, SecondCustomId} : AddPattern(p)
    \/ RemovePattern("custom-id")
    \/ TakeResult
SpecScans == InitScans /\ [][NextScans]_vars
(***************************************************************************)
(* path-sanitizer.ts                                                       *)
(***************************************************************************)
PathChars == Lower \cup Upper \cup Digit \cup {"_", "-"}
SYSTEM_PATH_PATTERNS == <<
    [ci |-> FALSE, global |-> TRUE, lastIndex |-> 0, replacement |-> <<"/","h","o","m","e","/","[","U","S","E","R","]">>,
     re |-> Cat(<<Lit(<<"/","h","o","m","e","/">>), Plus(Chr(PathChars))>>)],
    [ci |-> FALSE, global |-> TRUE, lastIndex |-> 0, replacement |-> <<"/","U","s","e","r","s","/","[","U","S","E","R","]">>,
     re |-> Cat(<<Lit(<<"/","U","s","e","r","s","/">>), Plus(Chr(PathChars))>>)],
    [ci |-> TRUE, global |-> TRUE, lastIndex |-> 0, replacement |-> <<"C",":","\\","U","s","e","r","s","\\","[","U","S","E","R","]">>,
     re |-> Cat(<<Lit(<<"C",":","\\","U","s","e","r","s","\\">>), Plus(Chr(PathChars))>>)],
    [ci |-> FALSE, global |-> TRUE, lastIndex |-> 0, replacement |-> <<"/","t","m","p","/","[","T","E","M","P","]">>,
     re |-> Cat(<<Lit(<<"/","t","m","p","/">>), Plus(Chr(PathChars \cup {"."}))>>)],
    [ci |-> FALSE, global |-> TRUE, lastIndex |-> 0, replacement |-> <<"/","v","a","r","/","t","m","p","/","[","T","E","M","P","]">>,
     re |-> Cat(<<Lit(<<"/","v","a","r","/","t","m","p","/">>), Plus(Chr(PathChars \cup {"."}))>>)],
    [ci |-> FALSE, global |-> TRUE, lastIndex |-> 0, replacement |-> <<"/","n","o","d","e","_","m","o","d","u","l","e","s","/","[","M","O","D","U","L","E","]">>,
     re |-> Cat(<<Lit(<<"/","n","o","d","e","_","m","o","d","u","l","e","s","/">>), Plus(NotChr(Space \cup {":"}))>>)],
    [ci |-> FALSE, global |-> TRUE, lastIndex |-> 0, replacement |-> <<"/","p","r","o","c","/","[","P","I","D","]">>,
     re |-> Cat(<<Lit(<<"/","p","r","o","c","/">>), Plus(Chr(Digit))>>)]
>>

\* DEFAULT_CONFIG.basePaths is one array object, the first of arrays
DefaultBasePaths == 1

\* DEFAULT_CONFIG of the PathSanitizer
DEFAULT_PATH_CONFIG ==
    [enabled |-> TRUE, basePaths |-> DefaultBasePaths,
     basePathReplacement |-> <<"[","P","A","T","H","]">>, redactSystemPaths |-> TRUE,
     customPatterns |-> <<>>]

\* GetSubstitution: the text a replacement string stands for at the match m
\* of s. $$ is a dollar sign, $& the match, $` what precedes it and $' what
\* follows it; any other character stands for itself ($1..$99 too: the
\* patterns of the model have no capture groups).
Dollar == "$"
RECURSIVE GetSubstitution(_, _, _, _)
GetSubstitution(replacement, i, s, m) ==
    IF i > Len(replacement) THEN <<>>
    ELSE IF replacement[i] # Dollar \/ i = Len(replacement)
         THEN <<replacement[i]>> \o GetSubstitution(replacement, i + 1, s, m)
    ELSE IF replacement[i + 1] = Dollar
         THEN <<Dollar>> \o GetSubstitution(replacement, i + 2, s, m)
    ELSE IF replacement[i + 1] = "&"
         THEN SubSeq(s, m[1], m[2] - 1) \o GetSubstitution(replacement, i + 2, s, m)
    ELSE IF replacement[i + 1] = "`"
         THEN SubSeq(s, 1, m[1] - 1) \o GetSubstitution(replacement, i + 2, s, m)
    ELSE IF replacement[i + 1] = "'"
         THEN SubSeq(s, m[2], Len(s)) \o GetSubstitution(replacement, i + 2, s, m)
    ELSE <<Dollar>> \o GetSubstitution(replacement, i + 1, s, m)

\* String.prototype.replace(pattern, replacement) for a replacement string,
\* from position from on: every match (the first for a pattern without g)
\* becomes the text the replacement stands for
RECURSIVE ReplaceStringFrom(_, _, _, _)
RECURSIVE ReplaceStringAt(_, _, _, _, _)
ReplaceStringFrom(p, s, from, replacement) ==
    ReplaceStringAt(p, s, from, replacement, FirstMatch(p, s, from))
ReplaceStringAt(p, s, from, replacement, m) ==
    IF m[1] = 0 THEN SubSeq(s, from, Len(s))
    ELSE SubSeq(s, from, m[1] - 1)
         \o GetSubstitution(replacement, 1, s, m)
         \o (IF ~p.global THEN SubSeq(s, m[2], Len(s))
             ELSE IF m[2] > m[1] THEN ReplaceStringFrom(p, s, m[2], replacement)
             ELSE IF m[1] > Len(s) THEN <<>>
             ELSE <<s[m[1]]>> \o ReplaceStringFrom(p, s, m[1] + 1, replacement))

replaceString(p, s, replacement) == ReplaceStringFrom(p, s, 1, replacement)

\* new RegExp(escaped, 'g'): the base path, every character taken literally
EscapedPattern(basePath) ==
    [ci |-> FALSE, global |-> TRUE, lastIndex |-> 0, re |-> Lit(basePath)]

\* for (const basePath of this.config.basePaths) if (basePath) ...
RECURSIVE RedactBasePaths(_, _, _)
RedactBasePaths(basePaths, replacement, s) ==
    IF Len(basePaths) = 0 THEN s
    ELSE RedactBasePaths(Tail(basePaths), replacement,
                         IF Len(Head(basePaths)) = 0 THEN s
                         ELSE replaceString(EscapedPattern(Head(basePaths)), s, replacement))

\* for (const { pattern, replacement } of patterns) result = result.replace(...)
RECURSIVE ApplyPatterns(_, _)
ApplyPatterns(patterns, s) ==
    IF Len(patterns) = 0 THEN s
    ELSE ApplyPatterns(Tail(patterns),
                       replaceString(Head(patterns), s, Head(patterns).replacement))

\* PathSanitizer.redact, basePaths being what config.basePaths holds
pathRedact(cfg, basePaths, input) ==
    IF ~cfg.enabled \/ Len(input) = 0 THEN input
    ELSE ApplyPatterns(IF cfg.redactSystemPaths THEN SYSTEM_PATH_PATTERNS ELSE <<>>,
            ApplyPatterns(cfg.customPatterns,
               RedactBasePaths(basePaths, cfg.basePathReplacement, input)))

Elements(seq) == {seq[i] : i \in 1..Len(seq)}

\* PathSanitizer.addBasePath on the array's content
addBasePath(basePaths, path) ==
    IF Len(path) # 0 /\ path \notin Elements(basePaths)
    THEN Append(basePaths, path) ELSE basePaths

\* Array.prototype.indexOf, from 1; 0 when absent
indexOf(seq, x) ==
    IF x \in Elements(seq) THEN SetMin({i \in 1..Len(seq) : seq[i] = x}) ELSE 0

\* basePaths.splice(index, 1)
splice(seq, index) == SubSeq(seq, 1, index - 1) \o SubSeq(seq, index + 1, Len(seq))

\* PathSanitizer.removeBasePath on the array's content
removeBasePath(basePaths, path) ==
    IF indexOf(basePaths, path) > 0 THEN splice(basePaths, indexOf(basePaths, path))
    ELSE basePaths

\* process.cwd() threw
CwdThrows == <<"throws">>

\* process.env.HOME || process.env.USERPROFILE
homeDir(env) == IF Len(env.HOME) # 0 THEN env.HOME ELSE env.USERPROFILE

\* PathSanitizer.detectBasePaths: pushes onto basePaths
detectBasePaths(env, basePaths) ==
    basePaths
    \o (IF Len(homeDir(env)) # 0 THEN <<homeDir(env)>> ELSE <<>>)
    \o (IF env.cwd # CwdThrows /\ Len(env.cwd) # 0 /\ env.cwd # <<"/">>
        THEN <<env.cwd>> ELSE <<>>)

\* { ...DEFAULT_CONFIG, ...config }.basePaths: the caller's array, a new
\* object, or the array of DEFAULT_CONFIG
BasePathsOf(arrs, partial) ==
    IF "basePaths" \in DOMAIN partial THEN Len(arrs) + 1 ELSE DefaultBasePaths
WithArrayOf(arrs, partial) ==
    IF "basePaths" \in DOMAIN partial THEN Append(arrs, partial.basePaths) ELSE arrs

\* if (this.config.basePaths.length === 0) this.detectBasePaths()
AutoDetected(arrs, ref, env) ==
    IF Len(arrs[ref]) = 0 THEN [arrs EXCEPT ![ref] = detectBasePaths(env, arrs[ref])]
    ELSE arrs

TextHomeFile == <<"/","h","o","m","e","/","j","o","h","n","d","o","e","/","f","i","l","e",".","t","x","t">>
TextAppFile  == <<"C","a","n","n","o","t"," ","r","e","a","d"," ","/","s","r","v","/","a","p","p","/","s","r","c","/","i","n","d","e","x",".","t","s">>
PathTexts == {<<>>, TextHomeFile, TextAppFile}

HomeJohndoe == <<"/","h","o","m","e","/","j","o","h","n","d","o","e">>
SrvApp      == <<"/","s","r","v","/","a","p","p">>
ProcessEnvs == {
    [NODE_ENV |-> "", HOME |-> HomeJohndoe, USERPROFILE |-> <<>>, cwd |-> SrvApp],
    [NODE_ENV |-> "", HOME |-> HomeJohndoe, USERPROFILE |-> <<>>, cwd |-> HomeJohndoe],
    [NODE_ENV |-> "", HOME |-> <<"/","r","o","o","t">>, USERPROFILE |-> <<>>, cwd |-> <<"/">>],
    [NODE_ENV |-> "", HOME |-> <<>>, USERPROFILE |-> <<"C",":","\\","U","s","e","r","s","\\","j","o","h","n","d","o","e">>, cwd |-> SrvApp],
    [NODE_ENV |-> "", HOME |-> <<>>, USERPROFILE |-> <<>>, cwd |-> CwdThrows] }

\* Partial<PathSanitizerConfig> given to the constructor
PathPartials ==
    {EmptyPartial, [redactSystemPaths |-> FALSE], [enabled |-> FALSE],
     [basePaths |-> <<SrvApp>>], [basePaths |-> <<>>]}

\* the paths callers add and remove
BasePathInputs == {<<>>, SrvApp, <<"/","h","o","m","e">>}

\* the instances the model constructs and the length an array grows to
MaxPathSanitizers == 2
MaxBasePaths == 3

\* the content of the basePaths array of instance i
BasePathsAt(i) == arrays[pathSanitizers[i].basePaths]

\* the constructor of PathSanitizer, run with partial
PathSanitizerConstructed(partial) ==
    /\ arrays' = AutoDetected(WithArrayOf(arrays, partial),
                              BasePathsOf(arrays, partial), processEnv)
    /\ pathSanitizers' =
          Append(pathSanitizers,
                 [Merge(DEFAULT_PATH_CONFIG, partial)
                    EXCEPT !.basePaths = BasePathsOf(arrays, partial)])

\* new PathSanitizer(partial)
NewPathSanitizer(partial) ==
    /\ ret = NoRet
    /\ Len(pathSanitizers) < MaxPathSanitizers
    /\ PathSanitizerConstructed(partial)
    /\ ret' = [op |-> "newPathSanitizer", instance |-> Len(pathSanitizers) + 1,
               partial |-> partial]
    /\ UNCHANGED <<processEnv, notPaths>>

\* instance.redact(input)
PathRedact(i, input) ==
    /\ ret = NoRet
    /\ i \in 1..Len(pathSanitizers)
    /\ ret' = [op |-> "pathRedact", instance |-> i, input |-> input,
               out |-> pathRedact(pathSanitizers[i], BasePathsAt(i), input)]
    /\ UNCHANGED <<pathVars, notPaths>>

\* instance.addBasePath(path)
AddBasePath(i, path) ==
    /\ ret = NoRet
    /\ i \in 1..Len(pathSanitizers)
    /\ Len(BasePathsAt(i)) < MaxBasePaths
    /\ arrays' = [arrays EXCEPT ![pathSanitizers[i].basePaths] = addBasePath(@, path)]
    /\ ret' = [op |-> "addBasePath", instance |-> i, path |-> path,
               before |-> BasePathsAt(i)]
    /\ UNCHANGED <<processEnv, pathSanitizers, notPaths>>

\* instance.removeBasePath(path): true when the path was found
RemoveBasePath(i, path) ==
    /\ ret = NoRet
    /\ i \in 1..Len(pathSanitizers)
    /\ arrays' = [arrays EXCEPT ![pathSanitizers[i].basePaths] = removeBasePath(@, path)]
    /\ ret' = [op |-> "removeBasePath", instance |-> i, path |-> path,
               before |-> BasePathsAt(i),
               out |-> indexOf(BasePathsAt(i), path) > 0]
    /\ UNCHANGED <<processEnv, pathSanitizers, notPaths>>

\* PathSanitizer instances in one process, whose environment is fixed.
InitPaths ==
    /\ SanitizerIdle /\ GuardIdle /\ GlobalsIdle
    /\ processEnv \in ProcessEnvs
    /\ arrays = <<<<>>>>
    /\ pathSanitizers = <<>>
    /\ ModuleLoaded
    /\ ret = NoRet
NextPaths ==
    \/ \E partial \in PathPartials : NewPathSanitizer(partial)
    \/ \E i \in 1..MaxPathSanitizers, x \in PathTexts : PathRedact(i, x)
    \/ \E i \in 1..MaxPathSanitizers, path \in BasePathInputs : AddBasePath(i, path)
    \/ \E i \in 1..MaxPathSanitizers, path \in BasePathInputs \cup {HomeJohndoe} :
          RemoveBasePath(i, path)
    \/ TakeResult
SpecPaths == InitPaths /\ [][NextPaths]_vars


\* One process, its PathSanitizer instances constructed with base paths,
\* markers and custom patterns of their own.
CustomPathPattern ==
    [ci |-> FALSE, global |-> TRUE, lastIndex |-> 0, replacement |-> <<"/","c","u","s","t","o","m","/","[","H","I","D","D","E","N","]">>,
     re |-> Cat(<<Lit(<<"/","c","u","s","t","o","m","/">>), Plus(Chr(Lower))>>)]
TextCustomPath == <<"P","a","t","h",":"," ","/","c","u","s","t","o","m","/","s","e","c","r","e","t">>
PhaseTexts == {<<>>, TextAppFile, TextHomeFile, TextCustomPath}
PhasePartials ==
    {[basePaths |-> <<SrvApp>>, basePathReplacement |-> <<"[","P","R","O","J","E","C","T","]">>],
     [basePaths |-> <<SrvApp>>, basePathReplacement |-> <<Dollar, "&">>],
     [basePaths |-> <<SrvApp>>, basePathReplacement |-> <<Dollar, Dollar, "A", "P", "P">>],
     [basePaths |-> <<<<"/","s","r","v","/","a",".","p">>, <<"/","h","o","m","e">>>>, redactSystemPaths |-> FALSE],
     [basePaths |-> <<>>, customPatterns |-> <<CustomPathPattern>>],
     [basePaths |-> <<SrvApp>>, enabled |-> FALSE]}
InitPhases ==
    /\ SanitizerIdle /\ GuardIdle /\ GlobalsIdle
    /\ processEnv = [NODE_ENV |-> "", HOME |-> HomeJohndoe, USERPROFILE |-> <<>>,
                     cwd |-> SrvApp]
    /\ arrays = <<<<>>>>
    /\ pathSanitizers = <<>>
    /\ ModuleLoaded
    /\ ret = NoRet
NextPhases ==
    \/ \E partial \in PhasePartials : NewPathSanitizer(partial)
    \/ \E i \in 1..MaxPathSanitizers, x \in PhaseTexts : PathRedact(i, x)
    \/ TakeResult
SpecPhases == InitPhases /\ [][NextPhases]_vars
(***************************************************************************)
(* The module-level instances: getX / configureX of sanitizer.ts,          *)
(* secret-guard.ts and path-sanitizer.ts, and sanitize / createSafeError   *)
(* of index.ts                                                             *)
(***************************************************************************)
\* getSecretGuard(): the global guard, made first when there is none
GuardsAfterGet == IF globalSecretGuard = 0 THEN Append(secretGuards, DefaultGuard)
                  ELSE secretGuards
GuardAfterGet  == IF globalSecretGuard = 0 THEN Len(secretGuards) + 1
                  ELSE globalSecretGuard

\* new ErrorSanitizer(partial): this.secretGuard = secretGuard || getSecretGuard()
NewErrorSanitizer(partial) ==
    [config |-> Merge(DEFAULT_CONFIG(defaultEnvironment), partial),
     secretGuard |-> GuardAfterGet, correlationCounter |-> 0]

\* getErrorSanitizer(): the global sanitizer, made first when there is none
SanitizersAfterGet ==
    IF globalErrorSanitizer = 0
    THEN Append(errorSanitizers, NewErrorSanitizer(EmptyPartial))
    ELSE errorSanitizers
SanitizerAfterGet ==
    IF globalErrorSanitizer = 0 THEN Len(errorSanitizers) + 1 ELSE globalErrorSanitizer

\* what a caller observes of an instance: its configuration and what its
\* behaviour depends on (for a sanitizer, which guard it redacts with)
Observed(kind, ref) ==
    IF kind = "errorSanitizer"
    THEN [config |-> errorSanitizers[ref].config,
          secretGuard |-> errorSanitizers[ref].secretGuard]
    ELSE IF kind = "secretGuard" THEN secretGuards[ref]
    ELSE [config |-> pathSanitizers[ref], basePaths |-> BasePathsAt(ref)]

\* const x = getX(): the caller keeps the first reference it gets
Hold(kind, ref) ==
    IF held[kind].ref = 0 THEN [held EXCEPT ![kind].ref = ref] ELSE held

\* configureX(...) is called: what the kept reference shows at that moment
Reconfigure(kind) ==
    IF held[kind].ref # 0 /\ ~held[kind].reconfigured
    THEN [held EXCEPT ![kind].reconfigured = TRUE,
                      ![kind].seen = Observed(kind, held[kind].ref)]
    ELSE held

InternalKeyPattern ==
    [name |-> "internal-key", ci |-> FALSE, global |-> TRUE, lastIndex |-> 0,
     re |-> Cat(<<Lit(<<"I","N","T","E","R","N","A","L","-">>), Exactly(Chr(Upper), 20)>>)]
TextInternalKey == <<"I","N","T","E","R","N","A","L","-","A","B","C","D","E","F","G","H","I","J","K","L","M","N","O","P","Q","R","S","T">>
InternalKeyError ==
    ErrorValue(<<"E","r","r","o","r">>, <<"K","e","y"," ">> \o TextInternalKey \o <<" ","w","a","s"," ","r","e","j","e","c","t","e","d">>, SomeStack)

GlobalErrors == {InternalKeyError}
GlobalEnvs ==
    {[NODE_ENV |-> "test", HOME |-> HomeJohndoe, USERPROFILE |-> <<>>, cwd |-> SrvApp]}
\* the README's: environment: NODE_ENV === 'production' ? 'production' :
\* 'development', includeCorrelationId: true
GlobalSanitizerPartials ==
    {[environment |-> "development", includeCorrelationId |-> TRUE]}
GlobalConfigurePartials == OneKey("environment", {"production"})
GlobalGuardPartials == {[customPatterns |-> <<InternalKeyPattern>>]}
GlobalPathPartials == {[redactSystemPaths |-> FALSE]}

\* the instances the module functions make in the model, and the calls of
\* the global sanitize and createSafeError on one instance
MaxInstances == 3
MaxGlobalCalls == 1

\* the instances made so far
Instances == Len(errorSanitizers) + Len(secretGuards) + Len(pathSanitizers)

\* getErrorSanitizer()
GetErrorSanitizer ==
    /\ ret = NoRet
    /\ errorSanitizers' = SanitizersAfterGet
    /\ globalErrorSanitizer' = SanitizerAfterGet
    /\ secretGuards' = IF globalErrorSanitizer = 0 THEN GuardsAfterGet ELSE secretGuards
    /\ globalSecretGuard' = IF globalErrorSanitizer = 0 THEN GuardAfterGet
                            ELSE globalSecretGuard
    /\ held' = Hold("errorSanitizer", SanitizerAfterGet)
    /\ ret' = [op |-> "getErrorSanitizer", kind |-> "errorSanitizer",
               out |-> SanitizerAfterGet]
    /\ UNCHANGED <<defaultEnvironment,
                   globalPathSanitizer, pathVars, notGlobals>>

\* configureErrorSanitizer(partial)
ConfigureErrorSanitizer(partial) ==
    /\ ret = NoRet
    /\ Instances < MaxInstances
    /\ errorSanitizers' = Append(errorSanitizers, NewErrorSanitizer(partial))
    /\ globalErrorSanitizer' = Len(errorSanitizers) + 1
    /\ secretGuards' = GuardsAfterGet
    /\ globalSecretGuard' = GuardAfterGet
    /\ held' = Reconfigure("errorSanitizer")
    /\ ret' = [op |-> "configureErrorSanitizer", partial |-> partial]
    /\ UNCHANGED <<defaultEnvironment,
                   globalPathSanitizer, pathVars, notGlobals>>

\* getSecretGuard()
GetSecretGuard ==
    /\ ret = NoRet
    /\ secretGuards' = GuardsAfterGet
    /\ globalSecretGuard' = GuardAfterGet
    /\ held' = Hold("secretGuard", GuardAfterGet)
    /\ ret' = [op |-> "getSecretGuard", kind |-> "secretGuard", out |-> GuardAfterGet]
    /\ UNCHANGED <<defaultEnvironment,
                   errorSanitizers, globalErrorSanitizer, globalPathSanitizer,
                   pathVars, notGlobals>>

\* configureSecretGuard(partial)
ConfigureSecretGuard(partial) ==
    /\ ret = NoRet
    /\ Instances < MaxInstances
    /\ secretGuards' = Append(secretGuards,
                              SecretGuard(Merge(DEFAULT_GUARD_CONFIG, partial)))
    /\ globalSecretGuard' = Len(secretGuards) + 1
    /\ held' = Reconfigure("secretGuard")
    /\ ret' = [op |-> "configureSecretGuard", partial |-> partial]
    /\ UNCHANGED <<defaultEnvironment,
                   errorSanitizers, globalErrorSanitizer, globalPathSanitizer,
                   pathVars, notGlobals>>

\* getPathSanitizer(), with the global set
GetPathSanitizerKept ==
    /\ globalPathSanitizer # 0
    /\ held' = Hold("pathSanitizer", globalPathSanitizer)
    /\ ret' = [op |-> "getPathSanitizer", kind |-> "pathSanitizer",
               out |-> globalPathSanitizer]
    /\ UNCHANGED <<globalPathSanitizer, pathVars>>

\* getPathSanitizer(), with the global null: new PathSanitizer()
GetPathSanitizerMade ==
    /\ globalPathSanitizer = 0
    /\ PathSanitizerConstructed(EmptyPartial)
    /\ globalPathSanitizer' = Len(pathSanitizers) + 1
    /\ held' = Hold("pathSanitizer", Len(pathSanitizers) + 1)
    /\ ret' = [op |-> "getPathSanitizer", kind |-> "pathSanitizer",
               out |-> Len(pathSanitizers) + 1]
    /\ UNCHANGED processEnv

\* getPathSanitizer()
GetPathSanitizer ==
    /\ ret = NoRet
    /\ IF globalPathSanitizer = 0 THEN GetPathSanitizerMade ELSE GetPathSanitizerKept
    /\ UNCHANGED <<defaultEnvironment,
                   errorSanitizers, secretGuards, globalErrorSanitizer,
                   globalSecretGuard, notGlobals>>

\* configurePathSanitizer(partial)
ConfigurePathSanitizer(partial) ==
    /\ ret = NoRet
    /\ Instances < MaxInstances
    /\ PathSanitizerConstructed(partial)
    /\ globalPathSanitizer' = Len(pathSanitizers) + 1
    /\ held' = Reconfigure("pathSanitizer")
    /\ ret' = [op |-> "configurePathSanitizer", partial |-> partial]
    /\ UNCHANGED <<defaultEnvironment,
                   processEnv, errorSanitizers, secretGuards, globalErrorSanitizer,
                   globalSecretGuard, notGlobals>>

\* what the global sanitizer's sanitize / createSafeError is called with: its
\* configuration, its guard and the id it generates
GlobalConfig == SanitizersAfterGet[SanitizerAfterGet].config
GlobalGuard  ==
    (IF globalErrorSanitizer = 0 THEN GuardsAfterGet ELSE secretGuards)
        [SanitizersAfterGet[SanitizerAfterGet].secretGuard]
GlobalId(now, random36) ==
    generateCorrelationId(SanitizersAfterGet[SanitizerAfterGet].correlationCounter + 1,
                          now, random36)

\* the state change of a call on getErrorSanitizer() that generates one id
GlobalSanitizerCalled ==
    /\ SanitizersAfterGet[SanitizerAfterGet].correlationCounter < MaxGlobalCalls
    /\ errorSanitizers' =
          [SanitizersAfterGet EXCEPT ![SanitizerAfterGet].correlationCounter = @ + 1]
    /\ globalErrorSanitizer' = SanitizerAfterGet
    /\ secretGuards' = IF globalErrorSanitizer = 0 THEN GuardsAfterGet ELSE secretGuards
    /\ globalSecretGuard' = IF globalErrorSanitizer = 0 THEN GuardAfterGet
                            ELSE globalSecretGuard
    /\ UNCHANGED <<defaultEnvironment,
                   held, globalPathSanitizer, pathVars, notGlobals>>

\* sanitize(error, context) of index.ts: getErrorSanitizer().sanitize(...)
GlobalSanitize(error, now, random36) ==
    /\ ret = NoRet
    /\ GlobalSanitizerCalled
    /\ ret' = [op |-> "globalSanitize", error |-> error,
               out |-> sanitize(GlobalConfig, GlobalGuard, GlobalId(now, random36),
                                now, error, JUndefined)]

\* createSafeError(error, context) of index.ts
GlobalCreateSafeError(error, now, random36) ==
    /\ ret = NoRet
    /\ GlobalSanitizerCalled
    /\ ret' = [op |-> "globalCreateSafeError", error |-> error,
               out |-> createSafeError(GlobalConfig, GlobalGuard,
                                       GlobalId(now, random36), now, error, JUndefined)]

\* getErrorSanitizer().configure(partial), the global being set
GlobalConfigure(partial) ==
    /\ ret = NoRet
    /\ globalErrorSanitizer # 0
    /\ errorSanitizers' =
          [errorSanitizers EXCEPT ![globalErrorSanitizer].config = Merge(@, partial)]
    /\ errorSanitizers' # errorSanitizers
    /\ ret' = [op |-> "configure", partial |-> partial]
    /\ UNCHANGED <<defaultEnvironment,
                   secretGuards, globalErrorSanitizer, globalSecretGuard,
                   globalPathSanitizer, held, pathVars, notGlobals>>

\* getSecretGuard().addPattern(pattern), the global being set; a pattern is
\* added to a guard once
GlobalAddPattern(pattern) ==
    /\ ret = NoRet
    /\ globalSecretGuard # 0
    /\ pattern \notin Elements(secretGuards[globalSecretGuard].patterns)
    /\ secretGuards' =
          [secretGuards EXCEPT ![globalSecretGuard].patterns = Append(@, pattern)]
    /\ ret' = [op |-> "addPattern", pattern |-> pattern]
    /\ UNCHANGED <<defaultEnvironment,
                   errorSanitizers, globalErrorSanitizer, globalSecretGuard,
                   globalPathSanitizer, held, pathVars, notGlobals>>

\* getPathSanitizer().addBasePath(path), the global being set
GlobalAddBasePath(path) ==
    /\ ret = NoRet
    /\ globalPathSanitizer # 0
    /\ Len(BasePathsAt(globalPathSanitizer)) < MaxBasePaths
    /\ arrays' = [arrays EXCEPT ![pathSanitizers[globalPathSanitizer].basePaths] =
                                     addBasePath(@, path)]
    /\ arrays' # arrays
    /\ ret' = [op |-> "addBasePath", instance |-> globalPathSanitizer, path |-> path,
               before |-> BasePathsAt(globalPathSanitizer)]
    /\ UNCHANGED <<processEnv, pathSanitizers, globalVars, notGlobals>>

\* One process that uses the three components through the module functions.
InitGlobals ==
    /\ SanitizerIdle /\ GuardIdle /\ GlobalsIdle
    /\ processEnv \in GlobalEnvs
    /\ arrays = <<<<>>>>
    /\ pathSanitizers = <<>>
    /\ ModuleLoaded
    /\ ret = NoRet
NextGlobals ==
    \/ GetErrorSanitizer
    \/ \E partial \in GlobalSanitizerPartials : ConfigureErrorSanitizer(partial)
    \/ GetSecretGuard
    \/ \E partial \in GlobalGuardPartials : ConfigureSecretGuard(partial)
    \/ GetPathSanitizer
    \/ \E partial \in GlobalPathPartials : ConfigurePathSanitizer(partial)
    \/ \E e \in GlobalErrors, now \in ClockInputs, r \in RandomInputs :
          GlobalSanitize(e, now, r)
    \/ \E e \in GlobalErrors, now \in ClockInputs, r \in RandomInputs :
          GlobalCreateSafeError(e, now, r)
    \/ \E partial \in GlobalConfigurePartials : GlobalConfigure(partial)
    \/ GlobalAddPattern(DynamicPattern)
    \/ GlobalAddBasePath(<<"/","h","o","m","e">>)
    \/ TakeResult
SpecGlobals == InitGlobals /\ [][NextGlobals]_vars



\* process.env.NODE_ENV = value, by the program that imported the library
SetNodeEnv(value) ==
    /\ ret = NoRet
    /\ processEnv.NODE_ENV # value
    /\ processEnv' = [processEnv EXCEPT !.NODE_ENV = value]
    /\ UNCHANGED <<ret, arrays, pathSanitizers, globalVars, notGlobals>>

\* One process whose NODE_ENV changes while it constructs ErrorSanitizers
\* through the module functions.
NodeEnvValues == {"", "production", "test"}
EnvPartials == {EmptyPartial, [includeCorrelationId |-> FALSE],
                [environment |-> "production"]}
InitEnv ==
    /\ SanitizerIdle /\ GuardIdle /\ GlobalsIdle
    /\ \E value \in NodeEnvValues :
          processEnv = [NODE_ENV |-> value, HOME |-> HomeJohndoe,
                        USERPROFILE |-> <<>>, cwd |-> SrvApp]
    /\ arrays = <<<<>>>>
    /\ pathSanitizers = <<>>
    /\ ModuleLoaded
    /\ ret = NoRet
NextEnv ==
    \/ \E value \in NodeEnvValues : SetNodeEnv(value)
    \/ GetErrorSanitizer
    \/ \E partial \in EnvPartials : ConfigureErrorSanitizer(partial)
    \/ \E e \in GlobalErrors, now \in ClockInputs, r \in RandomInputs :
          GlobalSanitize(e, now, r)
    \/ TakeResult
SpecEnv == InitEnv /\ [][NextEnv]_vars

(***************************************************************************)
(* Properties                                                              *)
(***************************************************************************)
\* the nine messages of GENERIC_MESSAGES and the default message
GenericStrings ==
    {MsgTimeout, MsgInvalid, MsgAuthn, MsgAuthz, MsgNotFound, MsgRateLimit,
     MsgNetwork, MsgDatabase, MsgConfig, MsgDefault}

\* .length of a string or of a function
LengthOf(v) == IF IsString(v) THEN Len(v.s) ELSE v.n

\* sanitize(error) returned a result
SanitizeReturned == ret.op = "sanitize" /\ ~ret.out.threw

\* the external message of the last sanitize call before truncation
Untruncated == externalMessage(config, secretGuard, ret.error)

\* C1: with enabled = true and environment = 'production', sanitize of an
\* Error returns an external message that is one of the ten fixed generic
\* strings and does not contain the original message, whatever the name, the
\* message and maxMessageLength are.
ProductionOpacity ==
    (/\ ret.op = "sanitize"
     /\ ret.error.kind = "Error"
     /\ config.enabled
     /\ config.environment = "production")
    => /\ ~ret.out.threw
       /\ IsString(ret.out.external.message)
       /\ ret.out.external.message.s \in GenericStrings
       /\ Len(ret.error.message.s) > 0
            => ~includes(ret.out.external.message.s, ret.error.message.s)

\* C2: no operation throws: sanitize, createSafeError, sanitizeUnknownError
\* and the failure path of a withErrorHandling wrapper return normally for
\* every value, and a wrapper that rethrows a value that is no Error throws
\* the safe error named 'UnknownError'.
NoOperationThrows ==
    /\ ret.op \in {"sanitize", "createSafeError", "sanitizeUnknownError"}
          => ~ret.out.threw
    /\ (ret.op = "withErrorHandling" /\ ret.failed)
          => ret.thrown.kind # "TypeError"
    /\ (ret.op = "withErrorHandling" /\ ret.failed /\ ret.rethrow
          /\ ret.error.kind # "Error")
          => /\ ret.thrown.kind = "safeError"
             /\ ret.thrown.safeError.name = JStr(<<"U","n","k","n","o","w","n","E","r","r","o","r">>)

\* C3: when the sanitizer is disabled or its environment is not 'production'
\* ('development' or 'test'), the external message of sanitize(error) is
\* secretGuard.redact(error.message), truncated; the generic mapping is used
\* only with enabled = true and environment = 'production'.
NonProductionKeepsText ==
    (/\ ret.op = "sanitize"
     /\ ret.error.kind = "Error"
     /\ (~config.enabled \/ config.environment # "production"))
    => /\ ~ret.out.threw
       /\ ret.out.external.message
            = truncate(config, redactValue(secretGuard, ret.error.message))

\* C4 as stated: the external message of sanitize is at most
\* maxMessageLength + 3 long and ends with "..." if and only if the
\* untruncated message was longer than maxMessageLength.
TruncationIffDots ==
    SanitizeReturned
    => /\ LengthOf(ret.out.external.message) <= config.maxMessageLength + 3
       /\ (/\ IsString(ret.out.external.message)
           /\ endsWith(ret.out.external.message.s, <<".",".",".">>))
          <=> LengthOf(Untruncated) > config.maxMessageLength

\* C4: the external message of sanitize is at most maxMessageLength + 3 long;
\* when the untruncated message is longer than maxMessageLength it is its
\* first maxMessageLength characters followed by "...", and otherwise it is
\* the untruncated message itself (which may end with "..." of its own).
TruncationBound ==
    SanitizeReturned
    => /\ LengthOf(ret.out.external.message) <= config.maxMessageLength + 3
       /\ IF LengthOf(Untruncated) > config.maxMessageLength
          THEN ret.out.external.message
                 = JStr(SubSeq(Untruncated.s, 1, config.maxMessageLength) \o <<".",".",".">>)
          ELSE ret.out.external.message = Untruncated

\* a message longer than maxMessageLength was sanitized in development
TruncationHappened ==
    /\ SanitizeReturned
    /\ config.enabled
    /\ config.environment = "development"
    /\ LengthOf(Untruncated) > config.maxMessageLength
    /\ endsWith(ret.out.external.message.s, <<".",".",".">>)

\* C5: every correlation id one instance generates differs from every id it
\* generated before, whatever the clock and the random source return: the
\* counter goes up by one with each id and no call resets it.
UniqueCorrelationIds ==
    /\ correlationCounter = Len(issued)
    /\ \A i, j \in 1..Len(issued) : i # j => issued[i] # issued[j]

\* MaxIds ids were generated at one clock value with one random part, a
\* configure call or not in between: only the counter tells them apart
SameClockSameRandom ==
    /\ Len(issued) = MaxIds
    /\ \A i \in 1..Len(issued) :
          /\ SubSeq(issued[i], 1, 6) = <<"e","r","r","-","z","-">>
          /\ endsWith(issued[i], <<"-","k","3","x","9">>)
    /\ config.environment = "production"

\* C6: in what sanitize returns internal.correlationId is always set (the id
\* generated for the call); external.correlationId is set if and only if
\* includeCorrelationId is true, and then equals internal.correlationId.
CorrelationIdPlacement ==
    SanitizeReturned
    => /\ ret.out.internal.correlationId = JStr(issued[Len(issued)])
       /\ IF config.includeCorrelationId
          THEN ret.out.external.correlationId = ret.out.internal.correlationId
          ELSE ret.out.external.correlationId = JUndefined

\* sanitize returned with includeCorrelationId = false
SanitizedWithoutExternalId ==
    /\ SanitizeReturned
    /\ ~config.includeCorrelationId
    /\ IsString(ret.out.internal.correlationId)

\* C7: in what sanitize(error, context) returns, internal.originalMessage is
\* error.message, internal.originalStack is error.stack and internal.context
\* is context, under every configuration: nothing of it is redacted, mapped
\* or truncated.
InternalFullFidelity ==
    SanitizeReturned
    => /\ ret.out.internal.originalMessage = ret.error.message
       /\ ret.out.internal.originalStack = ret.error.stack
       /\ ret.out.internal.context = ret.context

\* sanitize of an error whose message holds a password, in production with
\* maxMessageLength 20 and a context: the external message is mapped and cut
InternalKeptWhereExternalCut ==
    /\ SanitizeReturned
    /\ config.enabled
    /\ config.environment = "production"
    /\ config.maxMessageLength = 20
    /\ ret.error.message = JStr(TextPassword)
    /\ ret.context # JUndefined
    /\ ret.out.external.message # ret.error.message
    /\ ret.out.internal.originalMessage = JStr(TextPassword)

\* the classifier as C8 states it: the table's entry for one of its nine
\* keys, else the first keyword group that hits, else the default
ClassifierAsStated(error) ==
    IF error.name.s \in Keys(GENERIC_MESSAGES)
    THEN Lookup(GENERIC_MESSAGES, error.name.s)
    ELSE JStr(KeywordMessage(toLowerCase(error.message.s)))

\* C8: the generic message of an error is the table's entry when its name is
\* one of the table's nine keys, otherwise the message of the first keyword
\* group with a keyword in the lower-cased message, otherwise the default
\* message; it is always one of the fixed strings. (Read off the external
\* message of sanitize where the generic mapping applies and
\* maxMessageLength, 500, cuts nothing.)
ClassifierResolution ==
    (/\ ret.op = "sanitize"
     /\ ret.error.kind = "Error"
     /\ config.enabled
     /\ config.environment = "production"
     /\ config.maxMessageLength = 500)
    => /\ ~ret.out.threw
       /\ ret.out.external.message = ClassifierAsStated(ret.error)
       /\ IsString(ret.out.external.message)
       /\ ret.out.external.message.s \in GenericStrings

\* C9: createSafeError(error) returns an error with the name of error, with
\* the message sanitize(error).external.message, with no stack if and only
\* if sanitizeStackTraces is true and environment is 'production', and with
\* the correlation id as a property whatever includeCorrelationId is.
SafeErrorShape ==
    (ret.op = "createSafeError" /\ ret.error.kind = "Error")
    => /\ ~ret.out.threw
       /\ ret.out.safeError.name = ret.error.name
       /\ ret.out.safeError.message
            = sanitize(config, secretGuard, issued[Len(issued)], 0,
                       ret.error, ret.context).external.message
       /\ ret.out.safeError.stack = JUndefined
            <=> (config.sanitizeStackTraces /\ config.environment = "production")
       /\ ret.out.safeError.correlationId = JStr(issued[Len(issued)])

\* C10: sanitizeMessage(m) is m when the sanitizer is disabled; when it is
\* enabled, in every environment, it is secretGuard.redact(m), cut to
\* maxMessageLength characters plus "..." when longer, never a generic
\* message.
SanitizeMessageRedactsAndCuts ==
    ret.op = "sanitizeMessage"
    => ret.out
         = IF ~config.enabled THEN ret.message
           ELSE IF Len(redact(secretGuard, ret.message)) > config.maxMessageLength
           THEN SubSeq(redact(secretGuard, ret.message), 1, config.maxMessageLength)
                  \o <<".",".",".">>
           ELSE redact(secretGuard, ret.message)

\* sanitizeMessage in production on a message with a password and a keyword
\* of the classifier ("login"): redacted and cut to 20 characters
MessageRedactedInProduction ==
    /\ ret.op = "sanitizeMessage"
    /\ config.enabled
    /\ config.environment = "production"
    /\ config.maxMessageLength = 20
    /\ secretGuard = DefaultGuard
    /\ ret.message = TextPassword
    /\ ret.out = <<"L","o","g","i","n"," ","[","R","E","D","A","C","T","E","D","]"," ","r","e","j",".",".",".">>
(***************************************************************************)
(* Properties of the SecretGuard                                           *)
(***************************************************************************)
GuardQueries == {"redact", "containsSecrets", "detectSecretTypes"}

\* C11: a guard with enabled = false, whatever its pattern list, returns its
\* input from redact, false from containsSecrets and no name from
\* detectSecretTypes; an enabled guard does the same for the empty input.
DisabledIsIdentity ==
    (ret.op \in GuardQueries /\ (~guardConfig.enabled \/ ret.input = <<>>)) =>
        /\ ret.op = "redact" => ret.out = ret.input
        /\ ret.op = "containsSecrets" => ret.out = FALSE
        /\ ret.op = "detectSecretTypes" => ret.out = <<>>

\* a disabled guard, a custom and an added pattern in its list, was asked
\* about a text that holds an API key
DisabledGuardAsked ==
    /\ ret.op = "containsSecrets"
    /\ ~guardConfig.enabled
    /\ Len(guardPatterns) = 12
    /\ ret.input = TextApiKey
    /\ ret.out = FALSE

\* the last k characters of s
LastChars(s, k) == SubSeq(s, Len(s) - k + 1, Len(s))

\* some pattern of the guard under test matches all of input
MatchedWhole(input) ==
    \E i \in 1..Len(guardPatterns) :
        FirstMatch(patternObjects[guardPatterns[i]], input, 1) = <<1, Len(input) + 1>>

\* C12: with preservePartial = true and preserveLength = N >= 0, a match
\* longer than N is replaced by the marker, "..." and exactly the last N
\* characters of the match (none for N = 0); a match of length at most N is
\* replaced by the marker alone. Stated for inputs that are one match.
PartialPreservationExact ==
    (/\ ret.op = "redact"
     /\ guardConfig.enabled
     /\ guardConfig.preservePartial
     /\ ret.input \in {TextApiKey, TextCustomId}
     /\ MatchedWhole(ret.input)) =>
        ret.out = IF Len(ret.input) > guardConfig.preserveLength
                  THEN guardConfig.redactionText \o <<".",".",".">>
                       \o LastChars(ret.input, guardConfig.preserveLength)
                  ELSE guardConfig.redactionText

\* C13: the default guard redacts 'api_key=sk_live_1234567890abcdef' to
\* 'api_key=[REDACTED]': the key name and the separator stay, the value goes.
KeyNameIsKept ==
    (/\ ret.op = "redact"
     /\ guardConfig = DEFAULT_GUARD_CONFIG
     /\ guardPatterns = DefaultRefs
     /\ ret.input = TextApiKey) =>
        ret.out = <<"a","p","i","_","k","e","y","=","[","R","E","D","A","C","T","E","D","]">>

\* the substrings of s that replace(p, ...) matches from position from on
RECURSIVE MatchedFrom(_, _, _)
RECURSIVE MatchedAt(_, _, _, _)
MatchedFrom(p, s, from) == MatchedAt(p, s, from, FirstMatch(p, s, from))
MatchedAt(p, s, from, m) ==
    IF m[1] = 0 THEN {}
    ELSE {SubSeq(s, m[1], m[2] - 1)}
         \cup (IF ~p.global THEN {}
               ELSE IF m[2] > m[1] THEN MatchedFrom(p, s, m[2])
               ELSE IF m[1] > Len(s) THEN {}
               ELSE MatchedFrom(p, s, m[1] + 1))

\* the substrings matched while redact runs: each pattern works on what the
\* patterns before it left
RECURSIVE MatchedDuring(_, _, _)
MatchedDuring(cfg, patterns, s) ==
    IF Len(patterns) = 0 THEN {}
    ELSE MatchedFrom(Head(patterns), s, 1)
         \cup MatchedDuring(cfg, Tail(patterns), ReplaceFrom(cfg, Head(patterns), s, 1))

\* C14: with the guard enabled and preservePartial = false, no substring a
\* pattern matched during redact occurs in what redact returns.
NoSecretLeakage ==
    (/\ ret.op = "redact"
     /\ guardConfig.enabled
     /\ ~guardConfig.preservePartial) =>
        \A m \in MatchedDuring(guardConfig, GuardUnderTest.patterns, ret.input) :
            ~includes(ret.out, m)

\* redact replaced a secret and its result holds no matched substring
SecretRedactedAway ==
    /\ ret.op = "redact"
    /\ guardConfig.enabled
    /\ ~guardConfig.preservePartial
    /\ ret.input = TextPassword
    /\ MatchedDuring(guardConfig, GuardUnderTest.patterns, ret.input)
          = {<<"p","a","s","s","w","o","r","d","=","S","u","p","e","r","S","e","c","r","e","t","1","2","3","!">>}
    /\ ret.out = <<"L","o","g","i","n"," ","[","R","E","D","A","C","T","E","D","]"," ","r","e","j","e","c","t","e","d">>

\* the positions of refs that hold a pattern called name
Named(refs, name) == {i \in 1..Len(refs) : patternObjects[refs[i]].name = name}
WithoutIndex(refs, i) == SubSeq(refs, 1, i - 1) \o SubSeq(refs, i + 1, Len(refs))
WithoutFirst(refs, name) ==
    IF Named(refs, name) = {} THEN refs
    ELSE WithoutIndex(refs, SetMin(Named(refs, name)))

\* C15: removePattern(name) removes the first pattern of the list called
\* name and leaves later patterns of that name in place; it returns true if
\* and only if a pattern was removed.
RemovesFirstOnly ==
    ret.op = "removePattern" =>
        /\ guardPatterns = WithoutFirst(ret.before, ret.name)
        /\ ret.out = (Named(ret.before, ret.name) # {})

\* what the guard's pattern list and the built-in defaults hold
PatternValues == GuardUnderTest.patterns
DefaultValues == [i \in 1..Len(DefaultRefs) |-> patternObjects[DefaultRefs[i]]]
CallerMutations == {"callerPushes", "callerPops", "callerChangesEntry"}

\* C16: whatever the caller does to an array returned by getPatterns() or
\* getDefaultSecretPatterns(), or to an entry of it, leaves the guard's
\* pattern list, the built-in defaults and the results of later redact and
\* containsSecrets calls as they were.
ReturnedCopiesAreMutationProof ==
    [][ret'.op \in CallerMutations =>
          /\ PatternValues' = PatternValues
          /\ DefaultValues' = DefaultValues
          /\ \A x \in PatternTexts :
                /\ redact(GuardUnderTest', x) = redact(GuardUnderTest, x)
                /\ containsSecrets(GuardUnderTest', x) = containsSecrets(GuardUnderTest, x)]_vars

(***************************************************************************)
(* Properties of the PathSanitizer                                         *)
(***************************************************************************)
\* instance i has the default configuration, its base paths auto-detected
DefaultDetected(i) ==
    /\ pathSanitizers[i] = DEFAULT_PATH_CONFIG
    /\ BasePathsAt(i) = detectBasePaths(processEnv, <<>>)

\* C19: a PathSanitizer with the default configuration (base paths
\* auto-detected, system paths on) redacts '/home/johndoe/file.txt' to
\* '/home/[USER]/file.txt', whatever home and working directory it detected.
HomePrefixRewritten ==
    (/\ ret.op = "pathRedact"
     /\ DefaultDetected(ret.instance)
     /\ ret.input = TextHomeFile) =>
        ret.out = <<"/","h","o","m","e","/","[","U","S","E","R","]","/","f","i","l","e",".","t","x","t">>

\* the home prefix is rewritten where no detected base path occurs in the text
HomePrefixRewrittenAsRoot ==
    /\ ret.op = "pathRedact"
    /\ DefaultDetected(ret.instance)
    /\ processEnv.HOME = <<"/","r","o","o","t">>
    /\ ret.input = TextHomeFile
    /\ ret.out = <<"/","h","o","m","e","/","[","U","S","E","R","]","/","f","i","l","e",".","t","x","t">>

\* no element twice, no empty string
IsSet(seq) ==
    /\ \A i, j \in 1..Len(seq) : seq[i] = seq[j] => i = j
    /\ <<>> \notin Elements(seq)

\* C20: the base paths of every instance hold no duplicate and no empty
\* string, after construction, addBasePath and removeBasePath; addBasePath
\* of an empty or present path changes nothing; removeBasePath returns true
\* exactly when the path was present, and afterwards the path is absent.
BasePathsAreASet ==
    /\ \A i \in 1..Len(pathSanitizers) : IsSet(BasePathsAt(i))
    /\ (ret.op = "addBasePath"
        /\ (ret.path = <<>> \/ ret.path \in Elements(ret.before))) =>
           BasePathsAt(ret.instance) = ret.before
    /\ ret.op = "removeBasePath" =>
           /\ ret.out = (ret.path \in Elements(ret.before))
           /\ ret.path \notin Elements(BasePathsAt(ret.instance))

(***************************************************************************)
(* Properties of the module-level instances                                *)
(***************************************************************************)
GetOps == {"getErrorSanitizer", "getSecretGuard", "getPathSanitizer"}

\* for the global of kind k: (a) getX returns the kept instance until
\* configureX is called, (b) a different one afterwards, and (c) the kept
\* instance shows what it showed when configureX was called
ReplacedWholesale(k) ==
    /\ (ret.op \in GetOps /\ ret.kind = k /\ held[k].ref # 0 /\ ~held[k].reconfigured)
          => ret.out = held[k].ref
    /\ (ret.op \in GetOps /\ ret.kind = k /\ held[k].reconfigured)
          => ret.out # held[k].ref
    /\ held[k].reconfigured => Observed(k, held[k].ref) = held[k].seen

\* C17: each of the three globals is replaced wholesale and never mutated in
\* place: getX returns the same instance until a reconfiguration, a
\* different one after it, and a reference obtained before still observes
\* the configuration and behaviour of before.
HandlesReplacedWholesale == \A k \in Kinds : ReplacedWholesale(k)

\* C18: once configureErrorSanitizer and configureSecretGuard({customPatterns})
\* have been called, in either order, the global sanitize and createSafeError
\* of a non-production sanitizer redact what the custom pattern matches.
\* (NODE_ENV being 'test', a global sanitizer of environment 'development'
\* is one configureErrorSanitizer made.)
ComposesInEitherOrder ==
    (/\ ret.op \in {"globalSanitize", "globalCreateSafeError"}
     /\ ret.error = InternalKeyError
     /\ errorSanitizers[globalErrorSanitizer].config.environment = "development"
     /\ secretGuards[globalSecretGuard].config.customPatterns = <<InternalKeyPattern>>) =>
        ~includes(IF ret.op = "globalSanitize" THEN ret.out.external.message.s
                  ELSE ret.out.safeError.message.s,
                  TextInternalKey)

\* configureSecretGuard first, configureErrorSanitizer second: the custom
\* pattern is applied
ComposedGuardFirst ==
    /\ ret.op = "globalSanitize"
    /\ ret.error = InternalKeyError
    /\ errorSanitizers[globalErrorSanitizer].config.environment = "development"
    /\ secretGuards[globalSecretGuard].config.customPatterns = <<InternalKeyPattern>>
    /\ errorSanitizers[globalErrorSanitizer].secretGuard = globalSecretGuard
    /\ ret.out.external.message.s = <<"K","e","y"," ","[","R","E","D","A","C","T","E","D","]"," ","w","a","s"," ","r","e","j","e","c","t","e","d">>

\* a guard kept from before configureSecretGuard stays as it was when the
\* new global guard is given a pattern
OldGuardUntouched ==
    /\ ret.op = "addPattern"
    /\ held["secretGuard"].reconfigured
    /\ globalSecretGuard # held["secretGuard"].ref
    /\ Observed("secretGuard", held["secretGuard"].ref) = held["secretGuard"].seen

(***************************************************************************)
(* Properties of redaction passes, pattern order and scan positions        *)
(***************************************************************************)
\* p matches somewhere in s
HasMatch(p, s) == FirstMatch(p, s, 1) # <<0, 0>>

\* no pattern of the guard under test matches anywhere in input
NoPatternMatches(input) ==
    \A i \in 1..Len(guardPatterns) :
        ~HasMatch(patternObjects[guardPatterns[i]], input)

\* C21: an input that holds no substring matching any active pattern comes
\* back from redact unchanged, so that redacting the result again changes
\* nothing either.
UnmatchedIsFixedPoint ==
    (ret.op = "redact" /\ NoPatternMatches(ret.input)) =>
        /\ ret.out = ret.input
        /\ redact(GuardUnderTest, ret.out) = ret.out

\* an enabled guard with partial preservation and an added pattern was given
\* a text without secrets
UnmatchedTextRedacted ==
    /\ ret.op = "redact"
    /\ guardConfig.enabled
    /\ guardConfig.preservePartial
    /\ Len(guardPatterns) >= 11
    /\ ret.input = TextLoading
    /\ NoPatternMatches(ret.input)
    /\ ret.out = TextLoading

\* the result of the first k patterns of the guard under test applied to s,
\* one after another
RECURSIVE AppliedUpTo(_, _)
AppliedUpTo(k, s) ==
    IF k = 0 THEN s
    ELSE ReplaceFrom(guardConfig, patternObjects[guardPatterns[k]],
                     AppliedUpTo(k - 1, s), 1)

\* the names of those among the first k patterns that match s, in list order
RECURSIVE DetectedUpTo(_, _)
DetectedUpTo(k, s) ==
    IF k = 0 THEN <<>>
    ELSE DetectedUpTo(k - 1, s)
         \o (IF HasMatch(patternObjects[guardPatterns[k]], s)
             THEN <<patternObjects[guardPatterns[k]].name>> ELSE <<>>)

\* pattern objects are numbered as they are created: the built-ins, the
\* constructor's customPatterns, then every object handed to addPattern
InCreationOrder(refs) ==
    \A i, j \in 1..Len(refs) : i < j => refs[i] < refs[j]

\* C22: the active list is the built-ins, then the constructor's
\* customPatterns, then the patterns given to addPattern in call order, less
\* the removed ones, in unchanged relative order; redact applies the patterns
\* one after another in that order, each to the output of the one before, and
\* containsSecrets and detectSecretTypes scan in the same order.
PatternOrder ==
    /\ InCreationOrder(guardPatterns)
    /\ ret.op = "addPattern" =>
          /\ guardPatterns[Len(guardPatterns)] = Len(patternObjects)
          /\ patternObjects[Len(patternObjects)] = ret.pattern
    /\ ret.op = "removePattern" =>
          \A r \in Elements(ret.before) :
              r \in Elements(guardPatterns) <=> patternObjects[r].name # ret.name
    /\ (ret.op \in GuardQueries /\ guardConfig.enabled /\ ret.input # <<>>) =>
          /\ ret.op = "redact" =>
                ret.out = AppliedUpTo(Len(guardPatterns), ret.input)
          /\ ret.op = "detectSecretTypes" =>
                ret.out = DetectedUpTo(Len(guardPatterns), ret.input)
          /\ ret.op = "containsSecrets" =>
                ret.out = (DetectedUpTo(Len(guardPatterns), ret.input) # <<>>)

\* two patterns were added, the first of them removed again, and redact ran
\* on a text in which a later pattern's match starts inside an earlier one's
OrderDecidedResult ==
    /\ ret.op = "redact"
    /\ ret.input = TextOverlap
    /\ guardPatterns = DefaultRefs \o <<12>>
    /\ patternObjects[11].name = "custom-id"
    /\ patternObjects[12] = DynamicPattern
    /\ DefaultValues = DEFAULT_SECRET_PATTERNS
    /\ ret.out = <<"[","R","E","D","A","C","T","E","D","]","=","a","b","c","d","e","f","g","h">>

\* the spans <<start, end>> that replace(p, ...) matches in s from position
\* from on
RECURSIVE SpansFrom(_, _, _)
RECURSIVE SpansAt(_, _, _, _)
SpansFrom(p, s, from) == SpansAt(p, s, from, FirstMatch(p, s, from))
SpansAt(p, s, from, m) ==
    IF m[1] = 0 THEN {}
    ELSE {m}
         \cup (IF ~p.global THEN {}
               ELSE IF m[2] > m[1] THEN SpansFrom(p, s, m[2])
               ELSE IF m[1] > Len(s) THEN {}
               ELSE SpansFrom(p, s, m[1] + 1))

\* the positions of s at which the marker text stands
MarkerStarts(s) ==
    {i \in 1..Len(s) :
        /\ i + Len(guardConfig.redactionText) - 1 <= Len(s)
        /\ SubSeq(s, i, i + Len(guardConfig.redactionText) - 1)
              = guardConfig.redactionText}

\* the span m of s shares a character with an occurrence of the marker
OverlapsMarker(s, m) ==
    \E i \in MarkerStarts(s) :
        i < m[2] /\ m[1] < i + Len(guardConfig.redactionText)

\* pattern k of the list matches, in what the patterns before it left of s,
\* a stretch that takes in a marker
ReRedacted(k, s) ==
    \E m \in SpansFrom(patternObjects[guardPatterns[k]], AppliedUpTo(k - 1, s), 1) :
        OverlapsMarker(AppliedUpTo(k - 1, s), m)

\* C23: within one redact call, text put in as the replacement of an earlier
\* pattern's match is never matched and replaced again by a later pattern.
\* Stated for inputs that hold no marker themselves, so that every marker a
\* later pattern meets was put in by an earlier one.
ReplacementsAreFinal ==
    (/\ ret.op = "redact"
     /\ guardConfig.enabled
     /\ MarkerStarts(ret.input) = {}) =>
        \A k \in 1..Len(guardPatterns) : ~ReRedacted(k, ret.input)

\* the guard under test with pattern objects that no scan has touched yet
Unused(patterns) == [i \in 1..Len(patterns) |-> [patterns[i] EXCEPT !.lastIndex = 0]]
UnusedGuard(refs) ==
    [config |-> guardConfig, patterns |-> Unused(GuardOf(patternObjects, guardConfig, refs).patterns)]

RECURSIVE LiteralReplace(_, _, _, _)
LiteralReplace(s, from, path, marker) ==
    IF from > Len(s) THEN <<>>
    ELSE IF from + Len(path) - 1 <= Len(s) /\ SubSeq(s, from, from + Len(path) - 1) = path
         THEN marker \o LiteralReplace(s, from + Len(path), path, marker)
    ELSE <<s[from]>> \o LiteralReplace(s, from + 1, path, marker)

\* phase 1 for the first k base paths, in list order
RECURSIVE BasePathsReplaced(_, _, _, _)
BasePathsReplaced(basePaths, k, marker, s) ==
    IF k = 0 THEN s
    ELSE IF Len(basePaths[k]) = 0 THEN BasePathsReplaced(basePaths, k - 1, marker, s)
    ELSE LiteralReplace(BasePathsReplaced(basePaths, k - 1, marker, s), 1,
                        basePaths[k], marker)

\* C25: redact of an enabled PathSanitizer on a non-empty input runs three
\* phases, each applied fully before the next: every literal occurrence of
\* every base path, in list order, becomes the base-path marker exactly as
\* configured; then the custom patterns in list order; then the system
\* patterns, when redactSystemPaths is true. A disabled instance and the
\* empty input give the input back.
ThreePhasesLiteralMarker ==
    ret.op = "pathRedact" =>
        ret.out =
            IF ~pathSanitizers[ret.instance].enabled \/ ret.input = <<>> THEN ret.input
            ELSE ApplyPatterns(
                    IF pathSanitizers[ret.instance].redactSystemPaths
                    THEN SYSTEM_PATH_PATTERNS ELSE <<>>,
                    ApplyPatterns(pathSanitizers[ret.instance].customPatterns,
                       BasePathsReplaced(BasePathsAt(ret.instance),
                                         Len(BasePathsAt(ret.instance)),
                                         pathSanitizers[ret.instance].basePathReplacement,
                                         ret.input)))

\* the marker '[PROJECT]' took the place of the base path, and the file
\* below it was left to the later phases
ProjectMarkerPlaced ==
    /\ ret.op = "pathRedact"
    /\ pathSanitizers[ret.instance].basePathReplacement = <<"[","P","R","O","J","E","C","T","]">>
    /\ ret.input = TextAppFile
    /\ ret.out = <<"C","a","n","n","o","t"," ","r","e","a","d"," ","[","P","R","O","J","E","C","T","]","/","s","r","c","/","i","n","d","e","x",".","t","s">>

\* the partial names a non-empty list of base paths
ExplicitBasePaths(partial) ==
    "basePaths" \in DOMAIN partial /\ Len(partial.basePaths) > 0

\* C26: an instance constructed without explicit base paths holds what
\* auto-detection finds at that construction: the home directory from HOME
\* (else USERPROFILE), if set, then the working directory, if it resolves and
\* is not '/'. An instance constructed with a non-empty list holds exactly
\* that list.
DetectionOnEveryConstruction ==
    ret.op = "newPathSanitizer" =>
        BasePathsAt(ret.instance) =
            IF ExplicitBasePaths(ret.partial) THEN ret.partial.basePaths
            ELSE detectBasePaths(processEnv, <<>>)

\* a first instance was constructed with the defaults and holds the detected
\* home and working directory
FirstInstanceDetected ==
    /\ ret.op = "newPathSanitizer"
    /\ ret.instance = 1
    /\ ret.partial = EmptyPartial
    /\ BasePathsAt(1) = <<HomeJohndoe, SrvApp>>

PathMutations == {"newPathSanitizer", "addBasePath", "removeBasePath"}

\* C29: each PathSanitizer owns its base-path list: construction with its
\* auto-detection, addBasePath and removeBasePath on one instance leave the
\* base paths of every other instance, and the module's default list that
\* later constructions start from, as they were.
OwnsItsBasePaths ==
    [][ret'.op \in PathMutations =>
          /\ \A j \in 1..Len(pathSanitizers) :
                j # ret'.instance =>
                    arrays'[pathSanitizers'[j].basePaths] = BasePathsAt(j)
          /\ arrays'[DefaultBasePaths] = arrays[DefaultBasePaths]]_vars


(***************************************************************************)
(* The default environment of an ErrorSanitizer                            *)
(***************************************************************************)
\* the partials that leave the environment to the default
DefaultsEnvironment(partial) == "environment" \notin DOMAIN partial

\* C27: an ErrorSanitizer constructed without an explicit environment has
\* the environment NODE_ENV names at the moment of that construction,
\* 'development' when NODE_ENV is unset, so that a change of NODE_ENV
\* between two constructions shows in the second instance.
EnvironmentReadAtConstruction ==
    (ret.op = "configureErrorSanitizer" /\ DefaultsEnvironment(ret.partial))
        => errorSanitizers[globalErrorSanitizer].config.environment
               = nodeEnv(processEnv)

\* an instance constructed without an explicit environment while NODE_ENV
\* is what it was when the module was loaded
ConstructedInLoadEnvironment ==
    /\ ret.op = "configureErrorSanitizer"
    /\ DefaultsEnvironment(ret.partial)
    /\ nodeEnv(processEnv) = defaultEnvironment
    /\ errorSanitizers[globalErrorSanitizer].config.environment = "test"

(***************************************************************************)
(* The log record and the error of a withErrorHandling wrapper            *)
(***************************************************************************)
\* a wrapper with a logger and rethrow on, whose function rejected with an
\* Error
LoggedRethrow ==
    /\ ret.op = "withErrorHandling"
    /\ ret.failed /\ ret.rethrow /\ ret.hasLogger
    /\ ret.error.kind = "Error"

\* C28: when a function wrapped by withErrorHandling, with a logger and
\* rethrow on, fails, logger.error is called exactly once before the safe
\* error is thrown, and the correlationId of the logged record is the
\* correlationId of the safe error the caller gets.
LoggedIdIsThrownId ==
    LoggedRethrow
        => /\ Len(ret.logged) = 1
           /\ ret.thrown.kind = "safeError"
           /\ ret.logged[1].correlationId = ret.thrown.safeError.correlationId

\* the wrapper logged once, the id of its first sanitize call, and threw
\* the safe error
LoggedOnceThenThrew ==
    /\ LoggedRethrow
    /\ Len(ret.logged) = 1
    /\ ret.thrown.kind = "safeError"
    /\ ret.logged[1].correlationId = JStr(issued[Len(issued) - 1])
    /\ ret.thrown.safeError.correlationId = JStr(issued[Len(issued)])

(***************************************************************************)
(* A second redaction pass                                                 *)
(***************************************************************************)
\* C30: one redaction pass is complete: with the guard enabled, whatever
\* the input, the pattern list and the marker, with partial preservation
\* off or on, redact of what redact returned returns it unchanged.
RedactIsIdempotent ==
    (ret.op = "redact" /\ guardConfig.enabled)
        => redact(GuardUnderTest, ret.out) = ret.out

\* a text with a secret whose redaction a second pass leaves as it is
SecondPassChangesNothing ==
    /\ ret.op = "redact"
    /\ guardConfig.enabled
    /\ ret.input = TextApiKey
    /\ ret.out = guardConfig.redactionText
    /\ redact(GuardUnderTest, ret.out) = ret.out
====
